---- MODULE Spec2Model ----
(***************************************************************************)
(* State-machine model of the trading engine of nirre55/bot-final: the     *)
(* four strategy runtimes (ALL_OR_NOTHING, ONE_OR_MORE, ACCUMULATOR,       *)
(* CASCADE_MASTER) driving a mocked hedge-mode futures exchange.           *)
(*                                                                         *)
(* Every exchange call of the code can return None (HTTP non-200 or an     *)
(* exception caught inside BinanceAPIClient); the model draws that outcome *)
(* nondeterministically.  A handler is one action: the operators below map *)
(* a "world" (exchange state + service state) to the SET of worlds the     *)
(* handler can leave behind, one per combination of call outcomes.         *)
(*                                                                         *)
(* Quantities are integer multiples of the base order size.  Prices are    *)
(* abstracted: whether a price condition (RSI extreme, trailing trigger,   *)
(* stop trigger) holds is a nondeterministic input.  Two sections compute  *)
(* with prices: the order formatting and the levels of the trailing stop.  *)
(***************************************************************************)
EXTENDS Integers, Sequences, FiniteSets, TLC

\* ------------------------------------------------------------------ bounds

\* Largest id the mocked exchange hands out to a resting order.
MaxOrderId == 4

\* ACCUMULATOR_CONFIG["MAX_ACCUMULATIONS"] (20 in config.py), scaled down.
MAX_ACCUMULATIONS == 2

\* CASCADE_CONFIG["MAX_ORDERS"] (10 in config.py), scaled down.
MAX_ORDERS == 4

\* Largest number of FILLED updates waiting in the user data stream.
MaxEvents == 1

\* Largest position a MARKET entry may build on one side: beyond it the
\* exchange refuses the order (insufficient margin).
MaxPosition == 2

\* Largest cumulative quantity of a cascade side for which the child rule is
\* evaluated.
MaxTotal == 8

\* Lowest and highest price of an entry or of a closed candle, in ticks of
\* the finest grid.
MinPrice == 398

MaxPrice == 404

\* Largest id the exchange hands out to a stop-loss order of one side.
MaxStopId == 3

\* ------------------------------------------------------- program constants

\* AllOrNothingService._retry_operation(max_attempts=5)
max_attempts == 5

\* HEDGING_CONFIG["QUANTITY_MULTIPLIER"]
QUANTITY_MULTIPLIER == 2

\* ONE_OR_MORE_CONFIG["HEDGE_QUANTITY_MULTIPLIER"]
HEDGE_QUANTITY_MULTIPLIER == 2

Sides == {"LONG", "SHORT"}

Strategies == {"ALL_OR_NOTHING", "ONE_OR_MORE", "ACCUMULATOR", "CASCADE_MASTER"}

Opposite(side) == IF side = "LONG" THEN "SHORT" ELSE "LONG"

\* The base order size returned by TradingService.get_initial_trade_quantity.
InitialQuantity == 1

\* RECONNECTION_CONFIG["MAX_ATTEMPTS"] (100 in config.py), kept small.
MAX_ATTEMPTS == 3

\* UserDataStreamManager.max_reconnect_attempts (100 in the code), kept small.
max_reconnect_attempts == 3

\* RECONNECTION_CONFIG["DELAY_SECONDS"]
DELAY_SECONDS == 30

\* UserDataStreamManager.reconnect_delay
reconnect_delay == 5

\* Strategy objects the factory creates in a run, the first one included.
MaxInstances == 2

VARIABLES
    strategy,       \* config.STRATEGY_CONFIG["STRATEGY_TYPE"]
    dynamic_rsi,    \* ALL_OR_NOTHING_CONFIG["DYNAMIC_RSI_EXIT"]["ENABLED"]
    exchange,       \* the mocked exchange: open orders, positions, ids, stream
    aon,            \* AllOrNothingService fields
    oom,            \* OneOrMoreService fields
    acc,            \* AccumulatorService fields
    cascade,        \* CascadeService fields
    tp,             \* TPService fields
    cycle_entries,  \* history: MARKET entries placed per side since its cycle ended
    signal,         \* SignalService fields
    manager,        \* StrategyManager fields
    market_ws,      \* WebSocketManager fields and the position of connect()
    user_ws,        \* UserDataStreamManager fields and the position of start()
    run_bot,        \* the position of BinanceTradingBot.run_bot
    tasks,          \* the event loop: fill-processing tasks created, not yet run
    grid,           \* the last order sent: symbol filters, computed and sent values
    retry,          \* the position of one call of AllOrNothingService._retry_operation
    ready,          \* the event loop: what may still run before the pending tasks
    trailing        \* the trailing stop of one ALL_OR_NOTHING side: levels, reference, stops

\* The supervisor side of the bot: signal engine, strategy manager, streams.
supervisor == <<signal, manager, market_ws, user_ws, run_bot, tasks, grid, retry, ready, trailing>>

vars == <<strategy, dynamic_rsi, exchange, aon, oom, acc, cascade, tp,
          cycle_entries, signal, manager, market_ws, user_ws, run_bot, tasks, grid, retry, ready, trailing>>

\* ---------------------------------------------------------------- exchange

\* An order resting on the exchange.  type: "SL", "TP" close the position of
\* positionSide ps when they trigger; "HEDGE", "CHILD" are STOP_MARKET orders
\* that open (add to) the position of ps.
Order(id, type, ps, qty) == [id |-> id, type |-> type, ps |-> ps, qty |-> qty]

ClosingTypes == {"SL", "TP"}

ExchangeInit ==
    [open_orders |-> {},
     position |-> [s \in Sides |-> 0],
     next_order_id |-> 1,
     filled |-> {},
     events |-> <<>>]

\* BinanceAPIClient.get_open_orders, reduced to the ids.
LiveIds(x) == {o.id : o \in x.open_orders}

IsLive(x, id) == id \in LiveIds(x)

\* BinanceAPIClient.place_order(order_type="MARKET") opening or adding to the
\* position of `ps`: None, or the order filled at once.
PlaceMarketOpen(x, ps, qty) ==
    {[ok |-> FALSE, x |-> x]} \cup
    (IF x.position[ps] + qty <= MaxPosition
        THEN {[ok |-> TRUE, x |-> [x EXCEPT !.position[ps] = @ + qty]]}
        ELSE {})

\* BinanceAPIClient.place_order(order_type="MARKET") closing `qty` of the
\* position of `ps`: None, or (when the position covers qty) the close.
PlaceMarketClose(x, ps, qty) ==
    {[ok |-> FALSE, x |-> x]} \cup
    (IF qty > 0 /\ x.position[ps] >= qty
        THEN {[ok |-> TRUE, x |-> [x EXCEPT !.position[ps] = @ - qty]]}
        ELSE {})

\* BinanceAPIClient.place_stop_market_order / place_take_profit_order: None,
\* or the new resting order with a fresh orderId.
PlaceResting(x, type, ps, qty) ==
    {[ok |-> FALSE, id |-> 0, x |-> x]} \cup
    (IF x.next_order_id <= MaxOrderId
        THEN {[ok |-> TRUE, id |-> x.next_order_id,
               x |-> [x EXCEPT !.open_orders =
                                   @ \cup {Order(x.next_order_id, type, ps, qty)},
                               !.next_order_id = @ + 1]]}
        ELSE {})

\* BinanceAPIClient.cancel_order: None (refused, or the order is not open
\* any more), or the order removed from the book.
CancelOrder(x, id) ==
    {[ok |-> FALSE, x |-> x]} \cup
    (IF IsLive(x, id)
        THEN {[ok |-> TRUE,
               x |-> [x EXCEPT !.open_orders = {o \in @ : o.id # id}]]}
        ELSE {})

\* The exchange triggers resting order o: a closing order reduces its
\* position, an opening order adds to it; the FILLED update is queued on the
\* user data stream.  The status history is kept for TP orders, the only
\* resting orders whose status the program polls.
FillOrder(x, o) ==
    [x EXCEPT !.open_orders = @ \ {o},
              !.position[o.ps] = IF o.type \in ClosingTypes
                                    THEN @ - o.qty ELSE @ + o.qty,
              !.filled = IF o.type = "TP" THEN @ \cup {o.id} ELSE @,
              !.events = Append(@, o)]

CanFill(x, o) ==
    /\ o \in x.open_orders
    /\ Len(x.events) < MaxEvents
    /\ o.type \in ClosingTypes => x.position[o.ps] >= o.qty

\* BinanceAPIClient.get_order_status: None, or the status of the order.
GetOrderStatus(x, id) ==
    {"None", IF id \in x.filled THEN "FILLED" ELSE "NOT_FILLED"}

\* The exchange may trigger one of the resting orders `ids` while a handler
\* is between two of its REST calls.
MaybeFill(x, ids) ==
    {x} \cup {FillOrder(x, o) : o \in {q \in x.open_orders : q.id \in ids /\ CanFill(x, q)}}

World(x, s) == [x |-> x, s |-> s]

\* What a handler leaves behind: the world, a note naming the path taken,
\* the value it returned ("True", "False", "None", "RuntimeError"), whether
\* it placed a MARKET entry, and the sides whose cycle it reset.
Out(w, note, ret, entered, ended) ==
    [w |-> w, note |-> note, ret |-> ret, entered |-> entered, ended |-> ended]

\* --------------------------------------------------------- ALL_OR_NOTHING

AonInit ==
    [active_position |-> [s \in Sides |-> FALSE],
     active_sl |-> [s \in Sides |-> 0],
     active_tp |-> [s \in Sides |-> 0],
     trailing_reference |-> [s \in Sides |-> FALSE]]

\* AllOrNothingService._retry_operation: the operation is tried up to
\* max_attempts times; `failures` is how many attempts fail before one
\* succeeds.
RetrySucceeds(failures) == failures < max_attempts

RetryFailures == 0..max_attempts

\* AllOrNothingService._retry_operation before a call: no attempt made.
\* `outcomes` is what each attempt of operation() gave, `delays` the
\* time.sleep calls in seconds, `ret` the value returned.
RetryInit ==
    [pc |-> "idle", operation_name |-> "None", attempt |-> 0,
     outcomes |-> <<>>, delays |-> <<>>, ret |-> "None"]

\* The trailing stop of one side before an entry: active_sl_long/short
\* (orderId, stopPrice), trailing_reference_long/short, the stop orders of
\* the side live on the exchange and the close of the last candle handled.
NoStop == [orderId |-> 0, stopPrice |-> 0]

TrailingInit ==
    [position_side |-> "NONE", tick_size |-> 1, active_position |-> FALSE,
     active_sl |-> NoStop, trailing_reference |-> 0, open_stops |-> {},
     next_order_id |-> 1, current_price |-> 0]

AonGateOtherSide(s, side) == ~s.active_position[Opposite(side)]

\* execute_signal lines 744-749: the signal is accepted only while the side
\* is not active.
AonGate(s, side) == ~s.active_position[side]

\* AllOrNothingService._cancel_order: a single cancel request.
AonCancelOrder(w, id) ==
    {[ok |-> c.ok, w |-> [w EXCEPT !.x = c.x]] : c \in CancelOrder(w.x, id)}

\* execute_signal lines 848-901: the fixed TP (only when the dynamic RSI
\* exit is disabled), after the SL was created.
AonPlaceTp(w, side, dyn) ==
    IF dyn
      THEN {Out(w, "executed", "True", TRUE, {})}
      ELSE UNION {
        IF RetrySucceeds(f)
          THEN { Out(World(p.x, [w.s EXCEPT !.active_tp[side] = p.id]),
                     "executed", "True", TRUE, {})
                 : p \in {q \in PlaceResting(w.x, "TP", side, InitialQuantity) : q.ok} }
          ELSE \* lines 865-880: cancel the SL once, drop its reference,
               \* clear the side, raise RuntimeError
               { Out([c.w EXCEPT !.s.active_sl[side] = 0,
                                 !.s.active_position[side] = FALSE],
                     "tp_exhausted", "RuntimeError", TRUE, {side})
                 : c \in AonCancelOrder(w, w.s.active_sl[side]) }
        : f \in RetryFailures }

\* execute_signal lines 821-846: mark the side active and set its trailing
\* reference to the entry price, create the SL with retry.
AonPlaceSl(w, side, dyn) ==
    LET w1 == [w EXCEPT !.s.active_position[side] = TRUE,
                        !.s.trailing_reference[side] = TRUE] IN
    UNION {
      IF RetrySucceeds(f)
        THEN UNION { AonPlaceTp(World(p.x, [w1.s EXCEPT !.active_sl[side] = p.id]),
                                side, dyn)
                     : p \in {q \in PlaceResting(w1.x, "SL", side, InitialQuantity) : q.ok} }
        ELSE { Out([w1 EXCEPT !.s.active_position[side] = FALSE],
                   "sl_exhausted", "RuntimeError", TRUE, {side}) }
      : f \in RetryFailures }

\* AllOrNothingService.execute_signal, before its own `except Exception`.
AonExecuteSignalBody(w, side, dyn) ==
    IF ~AonGate(w.s, side)
      THEN {Out(w, "gate_closed", "False", FALSE, {})}
      ELSE
        \* lines 753-774: no SL price (history too short) or no quantity
        {Out(w, "not_ready", "False", FALSE, {})} \cup
        UNION {
          IF ~e.ok
            THEN {Out(w, "entry_failed", "False", FALSE, {})}
            ELSE
              \* lines 794-797: the fill price could not be read
              {Out([w EXCEPT !.x = e.x], "price_read_failed", "False", TRUE, {})}
              \cup AonPlaceSl([w EXCEPT !.x = e.x], side, dyn)
          : e \in PlaceMarketOpen(w.x, side, InitialQuantity) }

\* execute_signal lines 903-912: every exception raised in the body,
\* the RuntimeError of lines 846 and 880 included, is caught here: the side
\* is cleared and False returned.
AonExecuteSignalReturn(ret) == IF ret = "RuntimeError" THEN "False" ELSE ret

AonExecuteSignal(w, side, dyn) ==
    { IF o.ret = "RuntimeError"
        THEN [o EXCEPT !.ret = AonExecuteSignalReturn(o.ret),
                       !.w.s.active_position[side] = FALSE]
        ELSE o
      : o \in AonExecuteSignalBody(w, side, dyn) }

\* ALL_OR_NOTHING_CONFIG["TRAILING_STOP"]["ENABLED"]
TRAILING_STOP_ENABLED == TRUE

\* ALL_OR_NOTHING_CONFIG["DYNAMIC_RSI_EXIT"]["CANCEL_FIXED_ORDERS"]
CANCEL_FIXED_ORDERS == TRUE

\* A handler that returns nothing: the world it leaves and the sides whose
\* cycle it ended.
Done(w, ended) == [w |-> w, ended |-> ended]

\* The same with a note naming the path taken.
Noted(d, note) == [w |-> d.w, ended |-> d.ended, note |-> note]

\* _cancel_order on an optional reference: skipped when the reference is None;
\* the result is not looked at by the callers below.
AonCancelIfSet(w, id) ==
    IF id = 0 THEN {w} ELSE {c.w : c \in AonCancelOrder(w, id)}

\* AllOrNothingService._reset_position_side
AonResetPositionSide(s, side) ==
    [s EXCEPT !.active_position[side] = FALSE,
              !.active_sl[side] = 0,
              !.active_tp[side] = 0,
              !.trailing_reference[side] = FALSE]

\* AllOrNothingService._execute_dynamic_rsi_exit: MARKET exit, then cancel
\* the SL and TP, then reset the side.  A refused exit leaves all as it was.
AonExecuteDynamicRsiExit(w, side) ==
    IF ~w.s.active_position[side]
      THEN {Done(w, {})}
      ELSE UNION {
        IF ~e.ok
          THEN {Done(w, {})}
          ELSE { Done([w2 EXCEPT !.s = AonResetPositionSide(w2.s, side)], {side})
                 : w2 \in UNION { AonCancelIfSet(w1, IF CANCEL_FIXED_ORDERS
                                                       THEN w.s.active_tp[side] ELSE 0)
                                  : w1 \in AonCancelIfSet([w EXCEPT !.x = e.x],
                                                          IF CANCEL_FIXED_ORDERS
                                                            THEN w.s.active_sl[side] ELSE 0) } }
        : e \in PlaceMarketClose(w.x, side, InitialQuantity) }

\* AllOrNothingService._update_stop_loss_order: cancel the old SL (result
\* only logged), place the new one; the reference changes only when the new
\* order was accepted.
AonUpdateStopLossOrder(w, side) ==
    UNION { { IF p.ok
                THEN World(p.x, [w.s EXCEPT !.active_sl[side] = p.id])
                ELSE [w EXCEPT !.x = c.x]
              : p \in PlaceResting(c.x, "SL", side, InitialQuantity) }
            : c \in CancelOrder(w.x, w.s.active_sl[side]) }

\* process_candle_close_for_trailing_stop, one side: needs the side active
\* with an SL reference and the price trigger met.
AonTrailingStop(w, side, triggered) ==
    IF TRAILING_STOP_ENABLED /\ triggered
       /\ w.s.active_position[side] /\ w.s.active_sl[side] # 0
      THEN AonUpdateStopLossOrder(w, side)
      ELSE {w}

\* process_candle_close_for_dynamic_exit, one side.
AonDynamicExit(w, side, dyn, rsi_extreme) ==
    IF dyn /\ rsi_extreme THEN AonExecuteDynamicRsiExit(w, side) ELSE {Done(w, {})}

\* AllOrNothingStrategy.update_candle_data: dynamic exit for LONG then SHORT,
\* then trailing stop for LONG then SHORT.  exit_side is the side whose RSI
\* exit condition holds ("NONE": neither), trail the sides whose price
\* trigger is met.
AonUpdateCandleData(w, dyn, exit_side, trail) ==
    UNION { UNION { UNION { { Done(w4, d1.ended \cup d2.ended)
                              : w4 \in AonTrailingStop(w3, "SHORT", "SHORT" \in trail) }
                            : w3 \in AonTrailingStop(d2.w, "LONG", "LONG" \in trail) }
                    : d2 \in AonDynamicExit(d1.w, "SHORT", dyn, exit_side = "SHORT") }
            : d1 \in AonDynamicExit(w, "LONG", dyn, exit_side = "LONG") }

\* AllOrNothingService._is_sl_or_tp_executed
AonIsSlOrTpExecuted(s, id) ==
    \E side \in Sides : s.active_sl[side] = id \/ s.active_tp[side] = id

\* AllOrNothingService._reset_position_for_order, one side: cancel the
\* sibling order (result not read), clear the position and the two order
\* references of the side; the trailing reference is not among them.
AonResetSideForOrder(w, side, id) ==
    IF w.s.active_sl[side] = id \/ w.s.active_tp[side] = id
      THEN { Done([w1 EXCEPT !.s.active_position[side] = FALSE,
                             !.s.active_sl[side] = 0,
                             !.s.active_tp[side] = 0], {side})
             : w1 \in AonCancelIfSet(w, IF w.s.active_sl[side] = id
                                           THEN w.s.active_tp[side]
                                           ELSE w.s.active_sl[side]) }
      ELSE {Done(w, {})}

\* AllOrNothingService.handle_order_execution_from_websocket for a FILLED order.
AonHandleOrderExecution(w, id) ==
    IF ~AonIsSlOrTpExecuted(w.s, id)
      THEN {Done(w, {})}
      ELSE UNION { { Done(d2.w, d1.ended \cup d2.ended)
                     : d2 \in AonResetSideForOrder(d1.w, "SHORT", id) }
                   : d1 \in AonResetSideForOrder(w, "LONG", id) }

\* ------------------------------------------------------------ ONE_OR_MORE

OomInit ==
    [active_position |-> [s \in Sides |-> FALSE],
     active_hedge |-> [s \in Sides |-> 0],
     active_tp |-> [s \in Sides |-> 0],
     active_tp_hedge |-> [s \in Sides |-> 0]]

has_long_active_position(s) == s.active_position["LONG"]

\* OneOrMoreService.has_any_active_position
has_any_active_position(s) == s.active_position["LONG"] \/ s.active_position["SHORT"]

\* OneOrMoreService._save_position_state
OomSavePositionState(s, side, hedge_id, tp_id) ==
    [s EXCEPT !.active_position[side] = TRUE,
              !.active_hedge[side] = hedge_id,
              !.active_tp[side] = tp_id]

\* OneOrMoreService.execute_signal: entry, fill-price read, hedge STOP on the
\* opposite side, TP on the signal side, and only then the state is saved.
OomExecuteSignal(w, side) ==
    {Out(w, "not_ready", "False", FALSE, {})} \cup
    UNION {
      IF ~e.ok
        THEN {Out(w, "entry_failed", "False", FALSE, {})}
        ELSE
          {Out([w EXCEPT !.x = e.x], "price_read_failed", "False", TRUE, {})} \cup
          UNION {
            IF ~h.ok
              THEN {Out([w EXCEPT !.x = e.x], "hedge_failed", "False", TRUE, {})}
              ELSE { IF ~t.ok
                       THEN Out([w EXCEPT !.x = h.x], "tp_failed", "False", TRUE, {})
                       ELSE Out(World(t.x, OomSavePositionState(w.s, side, h.id, t.id)),
                                "executed", "True", TRUE, {})
                     : t \in PlaceResting(h.x, "TP", side, InitialQuantity) }
            : h \in PlaceResting(e.x, "HEDGE", Opposite(side),
                                 InitialQuantity * HEDGE_QUANTITY_MULTIPLIER) }
      : e \in PlaceMarketOpen(w.x, side, InitialQuantity) }

\* OneOrMoreStrategy.execute_signal: any active position blocks the signal.
OomStrategyExecuteSignal(w, side) ==
    IF has_any_active_position(w.s)
      THEN {Out(w, "gate_closed", "False", FALSE, {})}
      ELSE OomExecuteSignal(w, side)

\* OneOrMoreService._cancel_order_if_exists: the result is ignored.
OomCancelOrderIfExists(x, id) ==
    IF id = 0 THEN {x} ELSE {c.x : c \in CancelOrder(x, id)}

\* The six cancels of _close_all_positions_and_orders, in the code's order.
OomCancelAll(x, s) ==
    LET refs == <<s.active_hedge["LONG"], s.active_hedge["SHORT"],
                  s.active_tp["LONG"], s.active_tp["SHORT"],
                  s.active_tp_hedge["LONG"], s.active_tp_hedge["SHORT"]>>
        RECURSIVE Step(_, _)
        Step(xs, i) ==
            IF i > 6 THEN xs
            ELSE Step(UNION {OomCancelOrderIfExists(y, refs[i]) : y \in xs}, i + 1)
    IN Step({x}, 1)

\* The MARKET close of one side inside _close_open_positions: skipped when
\* the reported amount is zero; a refused close is only logged.
OomCloseSide(x, amounts, ps) ==
    IF amounts[ps] = 0 THEN {x}
    ELSE {c.x : c \in PlaceMarketClose(x, ps, amounts[ps])}

\* OneOrMoreService._close_open_positions: nothing is closed when
\* get_position_info returns None.
OomCloseOpenPositions(x) ==
    {x} \cup UNION { OomCloseSide(x1, x.position, "SHORT")
                     : x1 \in OomCloseSide(x, x.position, "LONG") }

\* OneOrMoreService._reset_all_state
OomResetAllState == OomInit

\* OneOrMoreService._close_all_positions_and_orders
OomCloseAllPositionsAndOrders(w) ==
    { Done(World(x2, OomResetAllState), Sides)
      : x2 \in UNION { OomCloseOpenPositions(x1) : x1 \in OomCancelAll(w.x, w.s) } }

\* OneOrMoreService._handle_hedge_execution -> _create_tp_hedge_order: a TP
\* for the hedge quantity on the hedge's position side; a refusal is silent.
OomHandleHedgeExecution(w, side) ==
    { IF p.ok
        THEN Done(World(p.x, [w.s EXCEPT !.active_tp_hedge[side] = p.id]), {})
        ELSE Done(w, {})
      : p \in PlaceResting(w.x, "TP", Opposite(side),
                           InitialQuantity * HEDGE_QUANTITY_MULTIPLIER) }

OomRefMatches(ref, id) == \E side \in Sides : ref[side] = id

\* OneOrMoreService.handle_order_execution_from_websocket for a FILLED order.
OomHandleOrderExecution(w, id) ==
    IF OomRefMatches(w.s.active_hedge, id)
      THEN OomHandleHedgeExecution(w, IF w.s.active_hedge["LONG"] = id
                                         THEN "LONG" ELSE "SHORT")
    ELSE IF OomRefMatches(w.s.active_tp, id) \/ OomRefMatches(w.s.active_tp_hedge, id)
      THEN OomCloseAllPositionsAndOrders(w)
    ELSE {Done(w, {})}

\* ------------------------------------------------------------ ACCUMULATOR

AccInit ==
    [accumulation_count |-> [s \in Sides |-> 0],
     active_tp |-> [s \in Sides |-> 0],
     current_quantity |-> [s \in Sides |-> 0]]

can_accumulate_always(s, side) == TRUE

\* AccumulatorService.can_accumulate
can_accumulate(s, side) == s.accumulation_count[side] < MAX_ACCUMULATIONS

\* AccumulatorService._create_or_update_accumulator_tp: cancel the old TP
\* (result ignored) and drop its reference, then place a TP for the side's
\* current quantity.
AccCreateOrUpdateTp(w, side) ==
    UNION { { IF p.ok
                THEN [ok |-> TRUE,
                      w |-> World(p.x, [w.s EXCEPT !.active_tp[side] = p.id])]
                ELSE [ok |-> FALSE,
                      w |-> World(x1, [w.s EXCEPT !.active_tp[side] = 0])]
              : p \in PlaceResting(x1, "TP", side, w.s.current_quantity[side]) }
            : x1 \in IF w.s.active_tp[side] = 0 THEN {w.x}
                     ELSE {c.x : c \in CancelOrder(w.x, w.s.active_tp[side])} }

\* AccumulatorService.process_signal_accumulation, after the MARKET entry:
\* read the position (None: stop), count the accumulation, then the TP.
AccProcessSignalAccumulation(w, side) ==
    IF ~can_accumulate(w.s, side)
      THEN {Out(w, "limit_reached", "False", TRUE, {})}
      ELSE
        {Out(w, "position_read_failed", "False", TRUE, {})} \cup
        (IF w.x.position[side] = 0
           THEN {}
           ELSE LET s1 == [w.s EXCEPT !.current_quantity[side] = w.x.position[side],
                                      !.accumulation_count[side] = @ + 1] IN
                { IF t.ok THEN Out(t.w, "executed", "True", TRUE, {})
                          ELSE Out(t.w, "tp_failed", "False", TRUE, {})
                  : t \in AccCreateOrUpdateTp(World(w.x, s1), side) })

\* AccumulatorStrategy.execute_signal_strategy
AccExecuteSignalStrategy(w, side) ==
    IF ~can_accumulate(w.s, side)
      THEN {Out(w, "gate_closed", "False", FALSE, {})}
      ELSE
        {Out(w, "not_ready", "False", FALSE, {})} \cup
        UNION { IF ~e.ok
                  THEN {Out(w, "entry_failed", "False", FALSE, {})}
                  ELSE AccProcessSignalAccumulation([w EXCEPT !.x = e.x], side)
                : e \in PlaceMarketOpen(w.x, side, InitialQuantity) }

\* AccumulatorService._reset_accumulation_side
AccResetAccumulationSide(s, side) ==
    [s EXCEPT !.accumulation_count[side] = 0,
              !.active_tp[side] = 0,
              !.current_quantity[side] = 0]

\* AccumulatorService.check_tp_execution_and_reset: LONG is polled first,
\* SHORT only when LONG was not found FILLED.
AccCheckTpExecutionAndReset(w) ==
    LET Poll(side) == IF w.s.active_tp[side] = 0 THEN {"None"}
                      ELSE GetOrderStatus(w.x, w.s.active_tp[side]) IN
    UNION { IF st = "FILLED"
              THEN {Done([w EXCEPT !.s = AccResetAccumulationSide(w.s, "LONG")], {"LONG"})}
              ELSE { IF st2 = "FILLED"
                       THEN Done([w EXCEPT !.s = AccResetAccumulationSide(w.s, "SHORT")],
                                 {"SHORT"})
                       ELSE Done(w, {})
                     : st2 \in Poll("SHORT") }
            : st \in Poll("LONG") }

\* ------------------------------------------------- CASCADE_MASTER and TPs

TpInit ==
    [initialized |-> FALSE,
     active_tp |-> [s \in Sides |-> 0],
     current_quantity |-> [s \in Sides |-> 0]]

CascadeInit ==
    [state |-> "INACTIVE",
     initial_price |-> [s \in Sides |-> FALSE],
     current_quantity |-> [s \in Sides |-> 0],
     cascade_orders_count |-> 0,
     pending_orders |-> {},
     initial_hedge_order |-> 0,
     initial_order_side |-> "NONE"]

\* The CASCADE_MASTER service state is the pair (CascadeService, TPService).
Services(c, t) == [c |-> c, t |-> t]

\* CascadeService.is_cascade_active
is_cascade_active(c) == c.state \in {"WAITING_HEDGE", "ACTIVE"}

\* SignalService._are_tp_orders_active
are_tp_orders_active(t) == \E s \in Sides : t.active_tp[s] # 0

\* TPService.create_or_update_tp(side, quantity, increment_position): False
\* before initialize_tp_levels; else cancel the old TP (result ignored, the
\* reference dropped) and place the new one.
create_or_update_tp(x, t, side, quantity) ==
    IF ~t.initialized
      THEN {[x |-> x, t |-> t]}
      ELSE UNION { { IF p.ok
                       THEN [x |-> p.x,
                             t |-> [t EXCEPT !.active_tp[side] = p.id,
                                             !.current_quantity[side] = quantity]]
                       ELSE [x |-> x1, t |-> [t EXCEPT !.active_tp[side] = 0]]
                     : p \in PlaceResting(x1, "TP", side, quantity) }
                   : x1 \in IF t.active_tp[side] = 0 THEN {x}
                            ELSE {c.x : c \in CancelOrder(x, t.active_tp[side])} }

\* TradingService._initialize_tp_system: abandoned when a price or the
\* quantity cannot be read; else initialize_tp_levels and the TP of the
\* initial position.
InitializeTpSystem(x, t, side) ==
    {[x |-> x, t |-> t]} \cup
    create_or_update_tp(x, [t EXCEPT !.initialized = TRUE], side, InitialQuantity)

\* CascadeService.start_cascade
start_cascade(c, side, hedge_id) ==
    IF is_cascade_active(c) THEN c
    ELSE [CascadeInit EXCEPT !.initial_order_side = side,
                             !.initial_hedge_order = hedge_id,
                             !.state = "WAITING_HEDGE"]

\* TradingService.execute_signal_trade: MARKET entry, hedge STOP_MARKET on the
\* opposite side; the TP system and the cascade start only when the hedge was
\* placed; the entry's result is returned either way.
ExecuteSignalTrade(w, side) ==
    {Out(w, "not_ready", "None", FALSE, {})} \cup
    UNION {
      IF ~e.ok
        THEN {Out(w, "entry_failed", "None", FALSE, {})}
        ELSE UNION {
          IF ~h.ok
            THEN {Out([w EXCEPT !.x = e.x], "hedge_failed", "True", TRUE, {})}
            ELSE { Out(World(i.x, Services(start_cascade(w.s.c, side, h.id), i.t)),
                       "executed", "True", TRUE, {})
                   : i \in InitializeTpSystem(h.x, w.s.t, side) }
          : h \in PlaceResting(e.x, "HEDGE", Opposite(side),
                               InitialQuantity * QUANTITY_MULTIPLIER) }
      : e \in PlaceMarketOpen(w.x, side, InitialQuantity) }

\* SignalService.process_market_data lines 222-229, then
\* CascadeMasterStrategy.execute_signal_strategy.
CascadeExecuteSignal(w, side) ==
    IF is_cascade_active(w.s.c) \/ are_tp_orders_active(w.s.t)
      THEN {Out(w, "gate_closed", "None", FALSE, {})}
      ELSE ExecuteSignalTrade(w, side)

ChildQuantityDifference(dominant, other) == dominant - other

\* _create_next_cascade_order lines 380 and 387: the quantity of the next
\* child, from the cumulative quantity of the dominant side and of the other.
ChildQuantity(dominant, other) == (2 * dominant) - other

\* _create_next_cascade_order line 374, turned round: the child goes to the
\* side that holds more.
NextChildSideDominant(L, S) == IF L > S THEN "LONG" ELSE "SHORT"

\* _create_next_cascade_order lines 374-387: more LONG than SHORT, the child
\* is a SHORT; otherwise it is a LONG.
NextChildSide(L, S) == IF L > S THEN "SHORT" ELSE "LONG"

\* _create_next_cascade_order lines 374-387 with a child that only makes up
\* the difference of the two sides.
NextChildQuantityLevel(L, S) == IF L > S THEN L - S ELSE S - L

\* _create_next_cascade_order lines 374-387: the quantity of the child.
NextChildQuantity(L, S) ==
    IF L > S THEN ChildQuantity(L, S) ELSE ChildQuantity(S, L)

\* CascadeService._create_next_cascade_order
CreateNextCascadeOrder(w) ==
    LET c == w.s.c
        L == c.current_quantity["LONG"]
        S == c.current_quantity["SHORT"]
        ps == NextChildSide(L, S)
        qty == NextChildQuantity(L, S)
    IN IF qty <= 0 \/ ~c.initial_price[ps]
         THEN {w}
         ELSE { IF p.ok
                  THEN [w EXCEPT !.x = p.x,
                                 !.s.c.pending_orders = @ \cup {p.id},
                                 !.s.c.cascade_orders_count = @ + 1]
                  ELSE \* _handle_cascade_order_failure
                       [w EXCEPT !.s.c.state = "STOPPED"]
                : p \in PlaceResting(w.x, "CHILD", ps, qty) }

\* CascadeService._create_tp_for_hedge_execution and _update_tp_after_cascade
\* call create_or_update_tp(side=..., quantity=..., is_initial=False); the
\* method has no parameter is_initial, the call raises TypeError before it
\* runs and the `except Exception` of the caller logs it: no TP is touched.
UpdateTpAfterFill(w) == w

\* CascadeService._retrieve_initial_order_price_async: on the first call the
\* status of the initial MARKET order is read; a None leaves the price of the
\* signal side unset.
RetrieveInitialOrderPrice(c) ==
    IF c.initial_order_side = "NONE" \/ c.initial_price[c.initial_order_side]
      THEN {c}
      ELSE {c, [c EXCEPT !.initial_price[c.initial_order_side] = TRUE,
                         !.current_quantity[c.initial_order_side] = InitialQuantity]}

\* CascadeService._process_hedge_execution_async
ProcessHedgeExecution(w, e) ==
    UNION {
      LET c2 == [c1 EXCEPT !.initial_price[e.ps] = TRUE,
                           !.current_quantity[e.ps] = @ + e.qty,
                           !.state = "ACTIVE",
                           !.initial_hedge_order = 0]
          w2 == UpdateTpAfterFill([w EXCEPT !.s.c = c2])
      IN IF \E s \in Sides : ~c2.initial_price[s]
           THEN {w2}
           ELSE CreateNextCascadeOrder(w2)
      : c1 \in RetrieveInitialOrderPrice(w.s.c) }

\* _process_cascade_execution_async line 787 with the executed order left in
\* the list.
KeepPendingOrder(pending_orders, id) == pending_orders

\* _process_cascade_execution_async line 787: the executed order leaves
\* pending_orders.
RemovePendingOrder(pending_orders, id) == pending_orders \ {id}

\* CascadeService._process_cascade_execution_async
ProcessCascadeExecution(w, e) ==
    LET w1 == UpdateTpAfterFill(
                [w EXCEPT !.s.c.pending_orders = RemovePendingOrder(@, e.id),
                          !.s.c.current_quantity[e.ps] = @ + e.qty,
                          !.s.c.cascade_orders_count = @ + 1])
    IN IF w1.s.c.cascade_orders_count < MAX_ORDERS
         THEN CreateNextCascadeOrder(w1)
         ELSE {[w1 EXCEPT !.s.c.state = "STOPPED"]}

\* CascadeService.handle_order_execution_from_websocket for a FILLED order.
CascadeHandleOrderExecution(w, e) ==
    IF w.s.c.initial_hedge_order # 0 /\ w.s.c.initial_hedge_order = e.id
      THEN ProcessHedgeExecution(w, e)
    ELSE IF e.id \in w.s.c.pending_orders
      THEN ProcessCascadeExecution(w, e)
    ELSE {w}

\* TPService.check_tp_execution_and_cleanup: LONG is polled first; on FILLED
\* the other TP is cancelled (result ignored) and the TP system reset.
CheckTpExecutionAndCleanup(x, t) ==
    LET Poll(side) == IF t.active_tp[side] = 0 THEN {"None"}
                      ELSE GetOrderStatus(x, t.active_tp[side])
        Executed(side) ==
            { [executed |-> side, x |-> x1, t |-> TpInit]
              : x1 \in IF t.active_tp[Opposite(side)] = 0 THEN {x}
                       ELSE {c.x : c \in CancelOrder(x, t.active_tp[Opposite(side)])} }
    IN UNION { IF st = "FILLED"
                 THEN Executed("LONG")
                 ELSE UNION { IF st2 = "FILLED"
                                THEN Executed("SHORT")
                                ELSE {[executed |-> "NONE", x |-> x, t |-> t]}
                              : st2 \in Poll("SHORT") }
               : st \in Poll("LONG") }

\* CascadeService._close_all_positions: nothing is closed when
\* get_position_info returns None; a refused MARKET close is only logged.
CloseAllPositions(x) ==
    {x} \cup UNION { OomCloseSide(x1, x.position, "SHORT")
                     : x1 \in OomCloseSide(x, x.position, "LONG") }

\* CascadeService._cancel_all_pending_orders, then the cancel of the initial
\* hedge (handle_tp_execution lines 909-915); results are only logged.
CancelAllPendingOrders(x, ids) ==
    LET RECURSIVE Step(_, _)
        Step(xs, rest) ==
            IF rest = {} THEN xs
            ELSE LET id == CHOOSE i \in rest : \A j \in rest : i <= j IN
                 Step(UNION {{c.x : c \in CancelOrder(y, id)} : y \in xs}, rest \ {id})
    IN Step({x}, ids)

\* CascadeService.handle_tp_execution: (1) flatten the positions, (2) cancel
\* the pending children, (3) cancel the initial hedge, (4) zero the state,
\* (5) STOPPED.  Between (1) and (2) a still-live stop order may trigger.
\* initial_order_info is not among the fields zeroed: it stays until the
\* next start_cascade.
HandleTpExecution(x, c) ==
    LET stops == c.pending_orders \cup
                 (IF c.initial_hedge_order # 0 THEN {c.initial_hedge_order} ELSE {})
    IN { [x |-> x3, c |-> [CascadeInit EXCEPT !.state = "STOPPED",
                                              !.initial_order_side = c.initial_order_side]]
         : x3 \in UNION { CancelAllPendingOrders(x2, stops)
                          : x2 \in UNION { MaybeFill(x1, stops)
                                           : x1 \in CloseAllPositions(x) } } }

\* BinanceTradingBot._process_signal_detection lines 283-289: poll the TPs;
\* when one is FILLED, tear the cascade down.
CascadeCheckTp(w) ==
    UNION { IF r.executed = "NONE"
              THEN {Noted(Done(World(r.x, Services(w.s.c, r.t)), {}), "none")}
              ELSE { Noted(Done(World(h.x, Services(h.c, r.t)), Sides), "teardown")
                     : h \in HandleTpExecution(r.x, w.s.c) }
            : r \in CheckTpExecutionAndCleanup(w.x, w.s.t) }

\* ------------------------------------------------------- supervisor chain

\* AllOrNothingStrategy.execute_signal_strategy (and the other strategies'):
\* a result dict when the service returned True, None otherwise; an exception
\* is caught by `except Exception` and None returned.
StrategyReturn(ret) == IF ret = "True" THEN "result" ELSE "None"

\* StrategyManager.execute_signal: the strategy's result; an exception is
\* caught by `except Exception` and None returned.
ManagerReturn(ret) == IF ret = "result" THEN "result" ELSE "None"

\* BinanceTradingBot._execute_trade: prints the trade, or "Trade non
\* exécuté" for None; an exception is logged and printed, never re-raised.
ExecuteTrade(ret) ==
    IF ret = "result" THEN "executed"
    ELSE IF ret = "None" THEN "not_executed"
    ELSE "error_logged"

\* What the top-level bot observes for an outcome raised or returned inside
\* AllOrNothingService.execute_signal.
BotSees(ret) ==
    ExecuteTrade(ManagerReturn(StrategyReturn(AonExecuteSignalReturn(ret))))

\* History of entries per side: an entry adds one (capped at 2), the end of
\* the side's cycle clears it.
CountEntries(n, side, entered, ended) ==
    [s \in Sides |->
        IF s \in ended THEN 0
        ELSE IF s = side /\ entered THEN (IF n[s] < 2 THEN n[s] + 1 ELSE 2)
        ELSE n[s]]

\* ----------------------------------------------------------- signal engine

\* SignalType.LONG.value and SignalType.SHORT.value
SignalTypes == {"long", "short"}

\* signal_data["type"].upper() of the strategies (TradingService compares
\* the lower-case value itself and opens the same side).
Upper(t) == IF t = "long" THEN "LONG" ELSE "SHORT"

\* SignalService.__init__
SignalInit ==
    [current_state |-> "WAITING",
     pending_signal_type |-> "None",
     confirmed_signal |-> "None"]

\* What a closed candle gives the engine: all RSI oversold, all overbought,
\* neither, or no RSI data; the colour of the Heikin-Ashi candle or no data.
RsiReadings == {"oversold", "overbought", "neutral", "None"}

HaReadings == {"green", "red", "None"}

\* The engine after a call and the value the call returned.
Emitted(sg, ret) == [signal |-> sg, ret |-> ret]

\* SignalService._handle_waiting_state
HandleWaitingState(sg, rsi) ==
    IF rsi = "oversold"
      THEN Emitted([sg EXCEPT !.current_state = "RSI_CONDITION_MET",
                              !.pending_signal_type = "long"], "None")
    ELSE IF rsi = "overbought"
      THEN Emitted([sg EXCEPT !.current_state = "RSI_CONDITION_MET",
                              !.pending_signal_type = "short"], "None")
    ELSE Emitted(sg, "None")

\* SignalService._check_ha_confirmation
CheckHaConfirmation(sg, ha) ==
    IF sg.pending_signal_type = "long" /\ ha = "green" THEN "long"
    ELSE IF sg.pending_signal_type = "short" /\ ha = "red" THEN "short"
    ELSE "None"

\* SignalService._handle_rsi_condition_met_state (the bot passes no volume)
HandleRsiConditionMetState(sg, ha) ==
    LET confirmed_signal_type == CheckHaConfirmation(sg, ha) IN
    IF confirmed_signal_type # "None"
      THEN Emitted([sg EXCEPT !.current_state = "SIGNAL_CONFIRMED",
                              !.confirmed_signal = confirmed_signal_type],
                   confirmed_signal_type)
      ELSE Emitted(sg, "None")

\* SignalService.process_market_data: blocked while the cascade is active or
\* the TP service holds a TP; else the two-step state machine.
ProcessMarketData(sg, c, t, rsi, ha) ==
    IF is_cascade_active(c) THEN Emitted(sg, "None")
    ELSE IF are_tp_orders_active(t) THEN Emitted(sg, "None")
    ELSE IF rsi = "None" \/ ha = "None" THEN Emitted(sg, "None")
    ELSE IF sg.current_state = "WAITING" THEN HandleWaitingState(sg, rsi)
    ELSE IF sg.current_state = "RSI_CONDITION_MET"
      THEN HandleRsiConditionMetState(sg, ha)
    ELSE Emitted(sg, sg.confirmed_signal)

reset_signal_keeps(sg) == sg

\* SignalService.reset_signal
reset_signal(sg) == SignalInit

\* -------------------------------------------------------- strategy manager

\* The services the bot's handlers work on.
Program(sg, x, a, o, ac, c, t) ==
    [signal |-> sg, exchange |-> x, aon |-> a, oom |-> o, acc |-> ac,
     cascade |-> c, tp |-> t]

\* What a bot handler leaves behind: the program, the signal the engine
\* returned, how often it was handed to the strategy manager, whether an
\* entry was placed and the sides whose cycle ended.
Handled(b, emitted, handed, entered, ended) ==
    [b |-> b, emitted |-> emitted, handed |-> handed, entered |-> entered,
     ended |-> ended]

\* StrategyManager.execute_signal: None without a current strategy, else the
\* current strategy's execute_signal_strategy.
StrategyExecuteSignal(m, b, side) ==
    CASE m.current_strategy = 0 ->
            {Handled(b, "None", 1, FALSE, {})}
      [] m.current_strategy # 0 /\ m.current_strategy_type = "ALL_OR_NOTHING" ->
            { Handled([b EXCEPT !.exchange = o.w.x, !.aon = o.w.s],
                      "None", 1, o.entered, o.ended)
              : o \in AonExecuteSignal(World(b.exchange, b.aon), side, dynamic_rsi) }
      [] m.current_strategy # 0 /\ m.current_strategy_type = "ONE_OR_MORE" ->
            { Handled([b EXCEPT !.exchange = o.w.x, !.oom = o.w.s],
                      "None", 1, o.entered, o.ended)
              : o \in OomStrategyExecuteSignal(World(b.exchange, b.oom), side) }
      [] m.current_strategy # 0 /\ m.current_strategy_type = "ACCUMULATOR" ->
            { Handled([b EXCEPT !.exchange = o.w.x, !.acc = o.w.s],
                      "None", 1, o.entered, o.ended)
              : o \in AccExecuteSignalStrategy(World(b.exchange, b.acc), side) }
      [] OTHER ->
            { Handled([b EXCEPT !.exchange = o.w.x, !.cascade = o.w.s.c,
                                !.tp = o.w.s.t],
                      "None", 1, o.entered, o.ended)
              : o \in CascadeExecuteSignal(
                          World(b.exchange, Services(b.cascade, b.tp)), side) }

\* AllOrNothingService.cleanup: the position and order references dropped,
\* the trailing references kept, no order cancelled.
AonCleanup(b) ==
    {[b EXCEPT !.aon = [AonInit EXCEPT !.trailing_reference =
                                          b.aon.trailing_reference]]}

\* OneOrMoreService.cleanup: logs what it preserves.
OomCleanup(b) == {b}

\* AccumulatorService._cancel_tp_order on an optional reference; cleanup
\* does not look at the result.
AccCancelTpOrder(x, id) ==
    IF id = 0 THEN {x} ELSE {c.x : c \in CancelOrder(x, id)}

\* AccumulatorService.cleanup: the live TP LONG and TP SHORT are cancelled,
\* then both sides are reset.
AccCleanup(b) ==
    { [b EXCEPT !.exchange = x2,
                !.acc = AccResetAccumulationSide(
                            AccResetAccumulationSide(b.acc, "LONG"), "SHORT")]
      : x2 \in UNION { AccCancelTpOrder(x1, b.acc.active_tp["SHORT"])
                       : x1 \in AccCancelTpOrder(b.exchange, b.acc.active_tp["LONG"]) } }

\* CascadeMasterStrategy.cleanup is `pass`.
CascadeMasterCleanup(b) == {b}

\* current_strategy.cleanup() for the strategy of the given type
StrategyCleanup(type, b) ==
    CASE type = "ALL_OR_NOTHING" -> AonCleanup(b)
      [] type = "ONE_OR_MORE" -> OomCleanup(b)
      [] type = "ACCUMULATOR" -> AccCleanup(b)
      [] OTHER -> CascadeMasterCleanup(b)

\* StrategyManager after BinanceTradingBot.__init__ called
\* initialize_strategy: the first strategy instance is installed.
ManagerInit(type) ==
    [current_strategy |-> 1, current_strategy_type |-> type, created |-> 1]

\* StrategyFactory.create_strategy: a new strategy object with a new service
\* object (ALL_OR_NOTHING, ONE_OR_MORE, ACCUMULATOR); CASCADE_MASTER works
\* on the bot's own cascade and TP services.
CreateStrategy(type, b) ==
    CASE type = "ALL_OR_NOTHING" -> [b EXCEPT !.aon = AonInit]
      [] type = "ONE_OR_MORE" -> [b EXCEPT !.oom = OomInit]
      [] type = "ACCUMULATOR" -> [b EXCEPT !.acc = AccInit]
      [] OTHER -> b

\* The manager and the program after a manager call, whether it succeeded,
\* the configured type it leaves, and the calls it made in order.
Managed(m, b, type, ok, calls) ==
    [m |-> m, b |-> b, type |-> type, ok |-> ok, calls |-> calls]

\* StrategyManager.initialize_strategy for the configured type: validate,
\* create the new strategy, clean the current one up, install the new one.
\* `valid` is validate_strategy_config, `made` whether create_strategy
\* returned a strategy.
InitializeStrategy(m, b, type, valid, made) ==
    IF ~valid THEN {Managed(m, b, type, FALSE, <<>>)}
    ELSE IF ~made THEN {Managed(m, b, type, FALSE, <<"create">>)}
    ELSE LET installed == [current_strategy |-> m.created + 1,
                           current_strategy_type |-> type,
                           created |-> m.created + 1]
         IN IF m.current_strategy = 0
              THEN {Managed(installed, CreateStrategy(type, b), type, TRUE,
                            <<"create", "install">>)}
              ELSE { Managed(installed, CreateStrategy(type, b1), type, TRUE,
                             <<"create", "cleanup", "install">>)
                     : b1 \in StrategyCleanup(m.current_strategy_type, b) }

\* StrategyManager.switch_strategy: the configured type is set to the new
\* one and the strategy initialized; on failure the old type is restored and
\* initialize_strategy called again, its result ignored.
SwitchStrategy(m, b, old_type, new_type, valid, made, made_again) ==
    UNION { IF i.ok
              THEN {i}
              ELSE { Managed(r.m, r.b, old_type, FALSE, i.calls \o r.calls)
                     : r \in InitializeStrategy(i.m, i.b, old_type, TRUE, made_again) }
            : i \in InitializeStrategy(m, b, new_type, valid, made) }

\* StrategyManager.cleanup
ManagerCleanup(m, b) ==
    IF m.current_strategy = 0
      THEN {Managed(m, b, m.current_strategy_type, TRUE, <<>>)}
      ELSE { Managed([m EXCEPT !.current_strategy = 0,
                               !.current_strategy_type = "None"],
                     b1, "None", TRUE, <<"cleanup">>)
             : b1 \in StrategyCleanup(m.current_strategy_type, b) }

\* ------------------------------------------------------------ bot handlers

\* BinanceTradingBot._process_signal_detection on a closed candle: the
\* engine sees the readings; a returned signal is handed to the strategy
\* manager once and the engine reset whatever the trade's result; then the
\* TP service is polled and a FILLED TP tears the cascade down and resets
\* the engine again.
ProcessSignalDetection(m, b, rsi, ha) ==
    LET e == ProcessMarketData(b.signal, b.cascade, b.tp, rsi, ha)
        seen == [b EXCEPT !.signal = e.signal]
        traded ==
            IF e.ret = "None"
              THEN {Handled(seen, "None", 0, FALSE, {})}
              ELSE { Handled([o.b EXCEPT !.signal = reset_signal(@)],
                             e.ret, o.handed, o.entered, o.ended)
                     : o \in StrategyExecuteSignal(m, seen, Upper(e.ret)) }
    IN UNION { { IF d.note = "none"
                   THEN [h EXCEPT !.b.exchange = d.w.x,
                                  !.b.cascade = d.w.s.c,
                                  !.b.tp = d.w.s.t]
                   ELSE [h EXCEPT !.b.exchange = d.w.x,
                                  !.b.cascade = d.w.s.c,
                                  !.b.tp = d.w.s.t,
                                  !.b.signal = reset_signal(@),
                                  !.ended = @ \cup d.ended]
                 : d \in CascadeCheckTp(World(h.b.exchange,
                                              Services(h.b.cascade, h.b.tp))) }
               : h \in traded }

\* UserDataStreamManager._handle_order_trade_update: only FILLED updates of
\* the configured symbol reach the order execution handler.
OrderStatuses == {"NEW", "PARTIALLY_FILLED", "FILLED", "CANCELED", "EXPIRED"}

Symbols == {"SYMBOL", "OTHER"}

PassesStreamFilter(status, symbol) == status = "FILLED" /\ symbol = "SYMBOL"

IsFilledOrPartial(status) == status \in {"FILLED", "PARTIALLY_FILLED"}

\* order_data.get("X") == "FILLED"
IsFilled(status) == status = "FILLED"

\* AllOrNothingService.handle_order_execution_from_websocket: an update that
\* is not FILLED is dropped.
AonHandleOrderUpdate(w, status, id) ==
    IF ~IsFilled(status) THEN {Done(w, {})} ELSE AonHandleOrderExecution(w, id)

\* OneOrMoreService.handle_order_execution_from_websocket: an update that is
\* not FILLED is dropped.
OomHandleOrderUpdate(w, status, id) ==
    IF ~IsFilled(status) THEN {Done(w, {})} ELSE OomHandleOrderExecution(w, id)

\* CascadeService.handle_order_execution_from_websocket: an update for
\* another symbol or one that is not FILLED is dropped.
CascadeHandleOrderUpdate(w, status, symbol, e) ==
    IF symbol # "SYMBOL" THEN {w}
    ELSE IF ~IsFilled(status) THEN {w}
    ELSE CascadeHandleOrderExecution(w, e)

\* BinanceTradingBot._handle_order_execution: the update goes to
\* CascadeService.handle_order_execution_from_websocket, whatever the
\* strategy.
BotHandleOrderExecution(b, e) ==
    { [b EXCEPT !.exchange = w.x, !.cascade = w.s.c, !.tp = w.s.t]
      : w \in CascadeHandleOrderUpdate(
                  World(b.exchange, Services(b.cascade, b.tp)),
                  "FILLED", "SYMBOL", e) }

\* BinanceTradingBot._cleanup_resources: both stream managers are stopped,
\* then the strategy manager cleaned up.
CleanupResources(m, b) == ManagerCleanup(m, b)

\* ---------------------------------------------------------------- streams

\* WebSocketManager.__init__ and the start of connect(): is_running, the
\* attempts counter, where the loop stands ("connect", "listen", "done"),
\* whether the pending connection attempt is a reconnection and how many
\* seconds the loop slept before it.
MarketInit ==
    [is_running |-> TRUE, reconnection_attempts |-> 0, pc |-> "connect",
     retry |-> FALSE, waited |-> 0]

\* UserDataStreamManager.__init__ and the start of start()
UserInit ==
    [is_running |-> FALSE, reconnect_count |-> 0, pc |-> "start",
     retry |-> FALSE, waited |-> 0]

\* WebSocketManager._handle_connection_error: count the failure; stop at
\* MAX_ATTEMPTS, else sleep DELAY_SECONDS and try again.
HandleConnectionError(ws) ==
    LET n == ws.reconnection_attempts + 1 IN
    IF n >= MAX_ATTEMPTS
      THEN [ws EXCEPT !.reconnection_attempts = n, !.is_running = FALSE,
                      !.pc = "done"]
      ELSE [ws EXCEPT !.reconnection_attempts = n, !.pc = "connect",
                      !.retry = TRUE, !.waited = DELAY_SECONDS]

\* UserDataStreamManager._connect_and_listen, an exception of the
\* connection: count it, sleep reconnect_delay (_handle_reconnection), and
\* leave the loop when max_reconnect_attempts is reached.
HandleReconnection(ws) ==
    LET n == ws.reconnect_count + 1 IN
    IF n >= max_reconnect_attempts
      THEN [ws EXCEPT !.reconnect_count = n, !.is_running = FALSE,
                      !.pc = "done", !.waited = reconnect_delay]
      ELSE [ws EXCEPT !.reconnect_count = n, !.pc = "connect",
                      !.retry = TRUE, !.waited = reconnect_delay]

\* -------------------------------------------------------- order formatting

\* Prices and quantities are counted in units of 0.0001.

\* Largest price or quantity a strategy computes, in units.
MaxRaw == 60

\* tickSize and stepSize of the symbol: 0.0001, 0.001 or 0.01.
GridSizes == {1, 10, 100}

\* Decimal places of a grid size, as `Decimal(str(tick_size)).as_tuple()
\* .exponent` and `len(str(tick_size).split('.')[1].rstrip('0'))` find them.
DecimalPlaces(size) ==
    IF size % 1000 = 0 THEN 1
    ELSE IF size % 100 = 0 THEN 2
    ELSE IF size % 10 = 0 THEN 3
    ELSE 4

\* Units in one step of the last of `places` decimal places.
UnitOf(places) ==
    CASE places = 1 -> 1000 [] places = 2 -> 100 [] places = 3 -> 10 [] OTHER -> 1

\* Decimal.quantize(..., rounding=ROUND_DOWN): the digits after `places`
\* decimal places are dropped.
QuantizeDown(value, places) == (value \div UnitOf(places)) * UnitOf(places)

\* round(value, places) and f"{value:.{places}f}": to the nearest, a tie to
\* the even digit.
RoundNearest(value, places) ==
    LET u == UnitOf(places)
        q == value \div u
        r == value % u
    IN IF 2 * r < u THEN q * u
       ELSE IF 2 * r > u THEN (q + 1) * u
       ELSE IF q % 2 = 0 THEN q * u ELSE (q + 1) * u

\* TradingService._format_price(price, tick_size)
FormatPrice(price, tick_size) == QuantizeDown(price, DecimalPlaces(tick_size))

\* TradingService._format_quantity(quantity, step_size)
FormatQuantity(quantity, step_size) == QuantizeDown(quantity, DecimalPlaces(step_size))

\* TradingService._format_stop_price(price): two decimals, whatever the
\* symbol.
FormatStopPrice(price) == RoundNearest(price, 2)

\* OneOrMoreService._format_price_with_precision.
FormatPriceWithPrecision(price, tick_size) ==
    RoundNearest(price, DecimalPlaces(tick_size))

\* CascadeService._format_cascade_price and _format_cascade_quantity: the
\* symbol's filters when the precision cache is filled, fixed decimals
\* otherwise.
FormatCascadePrice(price, tick_size, cached) ==
    IF cached THEN FormatPrice(price, tick_size) ELSE RoundNearest(price, 2)

FormatCascadeQuantity(quantity, step_size, cached) ==
    IF cached THEN FormatQuantity(quantity, step_size) ELSE RoundNearest(quantity, 3)

\* One field of an order as it is sent: the order, the field ("price" or
\* "quantity"), the symbol's tickSize or stepSize, the value the strategy
\* computed and the value of the request.
Placed(kind, field, size, value, sent) ==
    [kind |-> kind, field |-> field, size |-> size, value |-> value, sent |-> sent]

GridInit == Placed("NONE", "price", 1, 0, 0)

\* ------------------------------------------------------------------ steps

Init ==
    /\ strategy \in Strategies
    /\ dynamic_rsi \in (IF strategy = "ALL_OR_NOTHING" THEN BOOLEAN ELSE {TRUE})
    /\ exchange = ExchangeInit
    /\ aon = AonInit
    /\ oom = OomInit
    /\ acc = AccInit
    /\ cascade = CascadeInit
    /\ tp = TpInit
    /\ cycle_entries = [s \in Sides |-> 0]
    /\ signal = SignalInit
    /\ manager = ManagerInit(strategy)
    /\ market_ws = MarketInit
    /\ user_ws = UserInit
    /\ run_bot = "gather"
    /\ tasks = <<>>
    /\ grid = GridInit
    /\ retry = RetryInit
    /\ ready = "any"
    /\ trailing = TrailingInit

\* A confirmed signal reaches AllOrNothingService.execute_signal.
AonSignal ==
    /\ strategy = "ALL_OR_NOTHING"
    /\ \E side \in Sides :
         \E o \in AonExecuteSignal(World(exchange, aon), side, dynamic_rsi) :
            /\ exchange' = o.w.x
            /\ aon' = o.w.s
            /\ cycle_entries' = CountEntries(cycle_entries, side, o.entered, o.ended)
    /\ UNCHANGED <<strategy, dynamic_rsi, oom, acc, cascade, tp, supervisor>>

\* A candle closes: AllOrNothingStrategy.update_candle_data.
AonCandleClose ==
    /\ strategy = "ALL_OR_NOTHING"
    /\ \E exit_side \in Sides \cup {"NONE"}, trail \in SUBSET Sides :
         \E d \in AonUpdateCandleData(World(exchange, aon), dynamic_rsi, exit_side, trail) :
            /\ exchange' = d.w.x
            /\ aon' = d.w.s
            /\ cycle_entries' = CountEntries(cycle_entries, "NONE", FALSE, d.ended)
    /\ UNCHANGED <<strategy, dynamic_rsi, oom, acc, cascade, tp, supervisor>>

\* UserDataStreamManager._handle_order_trade_update hands the oldest FILLED
\* update to AllOrNothingService.handle_order_execution_from_websocket.
AonOrderUpdate ==
    /\ strategy = "ALL_OR_NOTHING"
    /\ exchange.events # <<>>
    /\ \E d \in AonHandleOrderExecution(
                    World([exchange EXCEPT !.events = Tail(@)], aon),
                    Head(exchange.events).id) :
            /\ exchange' = d.w.x
            /\ aon' = d.w.s
            /\ cycle_entries' = CountEntries(cycle_entries, "NONE", FALSE, d.ended)
    /\ UNCHANGED <<strategy, dynamic_rsi, oom, acc, cascade, tp, supervisor>>

\* A confirmed signal reaches OneOrMoreStrategy.execute_signal.
OomSignal ==
    /\ strategy = "ONE_OR_MORE"
    /\ \E side \in Sides :
         \E o \in OomStrategyExecuteSignal(World(exchange, oom), side) :
            /\ exchange' = o.w.x
            /\ oom' = o.w.s
            /\ cycle_entries' = CountEntries(cycle_entries, side, o.entered, o.ended)
    /\ UNCHANGED <<strategy, dynamic_rsi, aon, acc, cascade, tp, supervisor>>

\* The oldest FILLED update reaches
\* OneOrMoreStrategy.handle_order_execution_from_websocket.
OomOrderUpdate ==
    /\ strategy = "ONE_OR_MORE"
    /\ exchange.events # <<>>
    /\ \E d \in OomHandleOrderExecution(
                    World([exchange EXCEPT !.events = Tail(@)], oom),
                    Head(exchange.events).id) :
            /\ exchange' = d.w.x
            /\ oom' = d.w.s
            /\ cycle_entries' = CountEntries(cycle_entries, "NONE", FALSE, d.ended)
    /\ UNCHANGED <<strategy, dynamic_rsi, aon, acc, cascade, tp, supervisor>>

\* A confirmed signal reaches AccumulatorStrategy.execute_signal_strategy.
AccSignal ==
    /\ strategy = "ACCUMULATOR"
    /\ \E side \in Sides :
         \E o \in AccExecuteSignalStrategy(World(exchange, acc), side) :
            /\ exchange' = o.w.x
            /\ acc' = o.w.s
    /\ UNCHANGED <<strategy, dynamic_rsi, aon, oom, cascade, tp, cycle_entries, supervisor>>

\* AccumulatorService.check_tp_execution_and_reset is polled.
AccCheckTp ==
    /\ strategy = "ACCUMULATOR"
    /\ \E d \in AccCheckTpExecutionAndReset(World(exchange, acc)) :
            /\ exchange' = d.w.x
            /\ acc' = d.w.s
    /\ UNCHANGED <<strategy, dynamic_rsi, aon, oom, cascade, tp, cycle_entries, supervisor>>

\* The user data stream delivers a FILLED update; no ACCUMULATOR component
\* handles it (BinanceTradingBot._handle_order_execution forwards to the
\* cascade service, which does not track the order).
AccOrderUpdate ==
    /\ strategy = "ACCUMULATOR"
    /\ exchange.events # <<>>
    /\ exchange' = [exchange EXCEPT !.events = Tail(@)]
    /\ UNCHANGED <<strategy, dynamic_rsi, aon, oom, acc, cascade, tp, cycle_entries, supervisor>>

\* SignalService confirms a signal and CascadeMasterStrategy executes it.
CascadeSignal ==
    /\ strategy = "CASCADE_MASTER"
    /\ \E side \in Sides :
         \E o \in CascadeExecuteSignal(World(exchange, Services(cascade, tp)), side) :
            /\ exchange' = o.w.x
            /\ cascade' = o.w.s.c
            /\ tp' = o.w.s.t
            /\ cycle_entries' = CountEntries(cycle_entries, side, o.entered, o.ended)
    /\ UNCHANGED <<strategy, dynamic_rsi, aon, oom, acc, supervisor>>

\* BinanceTradingBot._handle_order_execution hands the oldest FILLED update
\* to CascadeService.handle_order_execution_from_websocket.
CascadeOrderUpdate ==
    /\ strategy = "CASCADE_MASTER"
    /\ exchange.events # <<>>
    /\ \E w \in CascadeHandleOrderExecution(
                    World([exchange EXCEPT !.events = Tail(@)], Services(cascade, tp)),
                    Head(exchange.events)) :
            /\ exchange' = w.x
            /\ cascade' = w.s.c
            /\ tp' = w.s.t
    /\ UNCHANGED <<strategy, dynamic_rsi, aon, oom, acc, cycle_entries, supervisor>>

\* BinanceTradingBot._process_signal_detection polls the TPs.
CascadeTpPoll ==
    /\ strategy = "CASCADE_MASTER"
    /\ \E d \in CascadeCheckTp(World(exchange, Services(cascade, tp))) :
            /\ exchange' = d.w.x
            /\ cascade' = d.w.s.c
            /\ tp' = d.w.s.t
            /\ cycle_entries' = CountEntries(cycle_entries, "NONE", FALSE, d.ended)
    /\ UNCHANGED <<strategy, dynamic_rsi, aon, oom, acc, supervisor>>

\* The exchange triggers a resting order.
ExchangeFill ==
    /\ \E o \in exchange.open_orders :
          /\ CanFill(exchange, o)
          /\ exchange' = FillOrder(exchange, o)
    /\ UNCHANGED <<strategy, dynamic_rsi, aon, oom, acc, cascade, tp, cycle_entries, supervisor>>

Next ==
    \/ AonSignal
    \/ AonCandleClose
    \/ AonOrderUpdate
    \/ OomSignal
    \/ OomOrderUpdate
    \/ AccSignal
    \/ AccCheckTp
    \/ AccOrderUpdate
    \/ CascadeSignal
    \/ CascadeOrderUpdate
    \/ CascadeTpPoll
    \/ ExchangeFill

Spec == Init /\ [][Next]_vars

\* ---------------------------------------------------------- the bot, wired

\* The program as the bot's handlers find it.
BotState == Program(signal, exchange, aon, oom, acc, cascade, tp)

\* The program as a handler leaves it.
Becomes(b) ==
    /\ signal' = b.signal
    /\ exchange' = b.exchange
    /\ aon' = b.aon
    /\ oom' = b.oom
    /\ acc' = b.acc
    /\ cascade' = b.cascade
    /\ tp' = b.tp

\* BinanceTradingBot.__init__ and run_bot up to asyncio.gather, both streams
\* connected.
InitBot ==
    /\ strategy \in Strategies
    /\ dynamic_rsi \in (IF strategy = "ALL_OR_NOTHING" THEN BOOLEAN ELSE {TRUE})
    /\ exchange = ExchangeInit
    /\ aon = AonInit
    /\ oom = OomInit
    /\ acc = AccInit
    /\ cascade = CascadeInit
    /\ tp = TpInit
    /\ cycle_entries = [s \in Sides |-> 0]
    /\ signal = SignalInit
    /\ manager = ManagerInit(strategy)
    /\ market_ws = [MarketInit EXCEPT !.pc = "listen"]
    /\ user_ws = [UserInit EXCEPT !.pc = "listen", !.is_running = TRUE]
    /\ run_bot = "gather"
    /\ tasks = <<>>
    /\ grid = GridInit
    /\ retry = RetryInit
    /\ ready = "any"
    /\ trailing = TrailingInit

\* The kline stream delivers a closed candle:
\* BinanceTradingBot._handle_kline_message, _calculate_and_display_rsi and
\* _process_signal_detection, then WebSocketManager resets its counter.
HandleClosedCandle ==
    /\ run_bot = "gather"
    /\ market_ws.is_running /\ market_ws.pc = "listen"
    /\ \E rsi \in RsiReadings, ha \in HaReadings :
         \E h \in ProcessSignalDetection(manager, BotState, rsi, ha) :
            /\ Becomes(h.b)
            /\ cycle_entries' =
                  CountEntries(cycle_entries,
                               IF h.emitted = "None" THEN "NONE" ELSE Upper(h.emitted),
                               h.entered, h.ended)
    /\ market_ws' = [market_ws EXCEPT !.reconnection_attempts = 0]
    /\ UNCHANGED <<strategy, dynamic_rsi, manager, user_ws, run_bot, tasks, grid, retry,
                   trailing>>

\* The closed candle is handled with every order update already handled in
\* full.
CandleClose == HandleClosedCandle /\ UNCHANGED ready

\* The user data stream delivers an ORDER_TRADE_UPDATE: the FILLED update at
\* the head of the stream, or an update with another status or symbol for
\* any order; UserDataStreamManager._handle_order_trade_update passes the
\* first kind on to BinanceTradingBot._handle_order_execution.
OrderTradeUpdate ==
    /\ run_bot = "gather"
    /\ user_ws.is_running /\ user_ws.pc = "listen"
    /\ \E status \in OrderStatuses, symbol \in Symbols :
         IF PassesStreamFilter(status, symbol)
           THEN /\ exchange.events # <<>>
                /\ \E b \in BotHandleOrderExecution(
                               [BotState EXCEPT !.exchange.events = Tail(@)],
                               Head(exchange.events)) :
                      Becomes(b)
           ELSE Becomes(BotState)
    /\ UNCHANGED <<strategy, dynamic_rsi, cycle_entries, manager, market_ws,
                   user_ws, run_bot, tasks, grid, retry, ready, trailing>>

\* SIGINT or SIGTERM: the signal handler schedules
\* BinanceTradingBot._cleanup_resources.
Shutdown ==
    /\ run_bot = "gather"
    /\ \E r \in CleanupResources(manager, BotState) :
          /\ Becomes(r.b)
          /\ manager' = r.m
    /\ market_ws' = [market_ws EXCEPT !.is_running = FALSE]
    /\ user_ws' = [user_ws EXCEPT !.is_running = FALSE]
    /\ run_bot' = "cleaned"
    /\ UNCHANGED <<strategy, dynamic_rsi, cycle_entries, tasks, grid, retry, ready, trailing>>

NextBot ==
    \/ CandleClose
    \/ OrderTradeUpdate
    \/ ExchangeFill
    \/ Shutdown

SpecBot == InitBot /\ [][NextBot]_vars

\* ------------------------------------------------------- the stream loops

\* BinanceTradingBot.__init__ and run_bot up to asyncio.gather: the two
\* tasks are created and nothing is connected yet.
InitStreams ==
    /\ strategy \in Strategies
    /\ dynamic_rsi \in (IF strategy = "ALL_OR_NOTHING" THEN BOOLEAN ELSE {TRUE})
    /\ exchange = ExchangeInit
    /\ aon = AonInit
    /\ oom = OomInit
    /\ acc = AccInit
    /\ cascade = CascadeInit
    /\ tp = TpInit
    /\ cycle_entries = [s \in Sides |-> 0]
    /\ signal = SignalInit
    /\ manager = ManagerInit(strategy)
    /\ market_ws = MarketInit
    /\ user_ws = UserInit
    /\ run_bot = "gather"
    /\ tasks = <<>>
    /\ grid = GridInit
    /\ retry = RetryInit
    /\ ready = "any"
    /\ trailing = TrailingInit

trading == <<strategy, dynamic_rsi, exchange, aon, oom, acc, cascade, tp,
             cycle_entries, signal, tasks, grid, retry, ready, trailing>>

\* WebSocketManager.connect, one connection attempt.
MarketConnect ==
    /\ market_ws.pc = "connect" /\ market_ws.is_running
    /\ \E connected \in BOOLEAN :
          market_ws' = IF connected
                         THEN [market_ws EXCEPT !.pc = "listen", !.retry = FALSE,
                                                !.waited = 0]
                         ELSE HandleConnectionError(market_ws)
    /\ UNCHANGED <<trading, manager, user_ws, run_bot>>

\* WebSocketManager._handle_websocket_connection: a kline message of a
\* candle still open is displayed, then the counter reset.
MarketMessage ==
    /\ market_ws.pc = "listen" /\ market_ws.is_running
    /\ market_ws' = [market_ws EXCEPT !.reconnection_attempts = 0]
    /\ UNCHANGED <<trading, manager, user_ws, run_bot>>

\* The kline connection closes or times out.
MarketConnectionLost ==
    /\ market_ws.pc = "listen" /\ market_ws.is_running
    /\ market_ws' = HandleConnectionError(market_ws)
    /\ UNCHANGED <<trading, manager, user_ws, run_bot>>

\* connect() finds is_running false after stop() and returns.
MarketStopped ==
    /\ market_ws.pc \in {"connect", "listen"} /\ ~market_ws.is_running
    /\ market_ws' = [market_ws EXCEPT !.pc = "done"]
    /\ UNCHANGED <<trading, manager, user_ws, run_bot>>

\* UserDataStreamManager.start: without a listen key it returns at once.
UserStart ==
    /\ user_ws.pc = "start" /\ run_bot = "gather"
    /\ \E listen_key \in BOOLEAN :
          user_ws' = IF listen_key
                       THEN [user_ws EXCEPT !.is_running = TRUE, !.pc = "connect"]
                       ELSE [user_ws EXCEPT !.pc = "done"]
    /\ UNCHANGED <<trading, manager, market_ws, run_bot>>

\* UserDataStreamManager._connect_and_listen, one connection attempt: a
\* successful connection resets the count.
UserConnect ==
    /\ user_ws.pc = "connect" /\ user_ws.is_running
    /\ \E connected \in BOOLEAN :
          user_ws' = IF connected
                       THEN [user_ws EXCEPT !.pc = "listen", !.reconnect_count = 0,
                                            !.retry = FALSE, !.waited = 0]
                       ELSE HandleReconnection(user_ws)
    /\ UNCHANGED <<trading, manager, market_ws, run_bot>>

\* The user data connection is closed normally: `async for` ends without an
\* exception and the while loop connects again.
UserCleanClose ==
    /\ user_ws.pc = "listen" /\ user_ws.is_running
    /\ user_ws' = [user_ws EXCEPT !.pc = "connect", !.retry = TRUE, !.waited = 0]
    /\ UNCHANGED <<trading, manager, market_ws, run_bot>>

\* The user data connection breaks with ConnectionClosed or another
\* exception.
UserConnectionLost ==
    /\ user_ws.pc = "listen" /\ user_ws.is_running
    /\ user_ws' = HandleReconnection(user_ws)
    /\ UNCHANGED <<trading, manager, market_ws, run_bot>>

\* _connect_and_listen finds is_running false after stop() and returns.
UserStopped ==
    /\ user_ws.pc \in {"start", "connect", "listen"} /\ ~user_ws.is_running
    /\ run_bot # "gather"
    /\ user_ws' = [user_ws EXCEPT !.pc = "done"]
    /\ UNCHANGED <<trading, manager, market_ws, run_bot>>

\* run_bot: asyncio.gather returns once both tasks have ended; the finally
\* block runs _cleanup_resources.
RunBotFinally ==
    /\ run_bot \in {"gather", "cleaned"}
    /\ market_ws.pc = "done" /\ user_ws.pc = "done"
    /\ \E r \in CleanupResources(manager, BotState) :
          /\ Becomes(r.b)
          /\ manager' = r.m
    /\ market_ws' = [market_ws EXCEPT !.is_running = FALSE]
    /\ user_ws' = [user_ws EXCEPT !.is_running = FALSE]
    /\ run_bot' = "stopped"
    /\ UNCHANGED <<strategy, dynamic_rsi, cycle_entries, tasks, grid, retry, ready, trailing>>

\* What StrategyFactory.validate_strategy_config and create_strategy can
\* answer for a type: a name outside StrategyType is never valid.
SwitchTargets == Strategies \cup {"UNKNOWN"}

\* StrategyManager.switch_strategy is called.
Switch ==
    /\ run_bot = "gather"
    /\ manager.created < MaxInstances
    /\ \E new_type \in SwitchTargets, valid, made, made_again \in BOOLEAN :
         /\ new_type = "UNKNOWN" => ~valid
         /\ \E r \in SwitchStrategy(manager, BotState, strategy, new_type,
                                    valid, made, made_again) :
               /\ Becomes(r.b)
               /\ manager' = r.m
               /\ strategy' = r.type
    /\ cycle_entries' = [s \in Sides |-> 0]
    /\ UNCHANGED <<dynamic_rsi, market_ws, user_ws, run_bot, tasks, grid, retry, ready, trailing>>

NextStreams ==
    \/ MarketConnect
    \/ MarketMessage
    \/ MarketConnectionLost
    \/ MarketStopped
    \/ UserStart
    \/ UserConnect
    \/ UserCleanClose
    \/ UserConnectionLost
    \/ UserStopped
    \/ Shutdown
    \/ RunBotFinally
    \/ Switch

SpecStreams == InitStreams /\ [][NextStreams]_vars

\* The scheduling of the event loop: a task that can return does return,
\* and run_bot goes on once asyncio.gather has returned.  Nothing obliges
\* the exchange to close a connection or to refuse one.
SpecStreamsFair ==
    /\ SpecStreams
    /\ WF_vars(MarketStopped)
    /\ WF_vars(UserStopped)
    /\ WF_vars(RunBotFinally)

\* --------------------------------------------------------- the event loop

\* Fill-processing tasks the event loop holds at once.
MaxTasks == 2

\* asyncio.create_task(...) at lines 106 and 112 of
\* handle_order_execution_from_websocket: the coroutine and the arguments it
\* was created with.
Task(kind, e) == [kind |-> kind, e |-> e]

\* CascadeService.handle_order_execution_from_websocket for a FILLED update
\* of the symbol: whether the order is the hedge or a child is decided now,
\* by the references as they are now; the processing is left to a task.
ScheduleFill(c, e) ==
    IF c.initial_hedge_order # 0 /\ c.initial_hedge_order = e.id
      THEN <<Task("hedge", e)>>
    ELSE IF e.id \in c.pending_orders
      THEN <<Task("cascade", e)>>
    ELSE <<>>

\* The body of the task: _process_hedge_execution_async or
\* _process_cascade_execution_async.  Neither suspends once started (the
\* coroutines they await contain no await that yields), so a task runs in
\* one step of the loop, on the state it finds then.
RunFillTask(w, t) ==
    IF t.kind = "hedge" THEN ProcessHedgeExecution(w, t.e)
                        ELSE ProcessCascadeExecution(w, t.e)

\* The bot with CASCADE_MASTER configured, both streams connected, no task
\* pending.
InitLoop == InitBot /\ strategy = "CASCADE_MASTER"

\* The user data stream delivers an ORDER_TRADE_UPDATE and the callback
\* returns: for a tracked FILLED order a task now waits in the loop.
UserDataCallback ==
    /\ run_bot = "gather"
    /\ user_ws.is_running /\ user_ws.pc = "listen"
    /\ ready = "any"
    /\ trailing = TrailingInit
    /\ \E status \in OrderStatuses, symbol \in Symbols :
         IF PassesStreamFilter(status, symbol)
           THEN /\ exchange.events # <<>>
                /\ Len(tasks) < MaxTasks
                /\ exchange' = [exchange EXCEPT !.events = Tail(@)]
                /\ tasks' = tasks \o ScheduleFill(cascade, Head(exchange.events))
           ELSE UNCHANGED <<exchange, tasks>>
    /\ UNCHANGED <<strategy, dynamic_rsi, aon, oom, acc, cascade, tp,
                   cycle_entries, signal, manager, market_ws, user_ws, run_bot, grid, retry, ready, trailing>>

\* The loop runs the oldest task.
FillTask ==
    /\ tasks # <<>>
    /\ \E w \in RunFillTask(World(exchange, Services(cascade, tp)), Head(tasks)) :
          /\ exchange' = w.x
          /\ cascade' = w.s.c
          /\ tp' = w.s.t
    /\ tasks' = Tail(tasks)
    /\ ready' = IF Tail(tasks) = <<>> THEN "any" ELSE "tasks"
    /\ UNCHANGED <<strategy, dynamic_rsi, aon, oom, acc, cycle_entries,
                   signal, manager, market_ws, user_ws, run_bot, grid, retry,
                   trailing>>

\* The kline coroutine handles a closed candle.  With tasks pending this is
\* the one step of the kline coroutine that was ready before they were
\* created; once a task has run, the rest of the tasks run first.
LoopCandleClose ==
    /\ ready # "tasks"
    /\ HandleClosedCandle
    /\ ready' = IF tasks = <<>> THEN "any" ELSE "market"

\* One event loop with a first-in first-out ready queue: a task created by
\* asyncio.create_task runs before any coroutine that becomes ready later.
\* While tasks are pending (ready = "any") the user data coroutine may go on
\* with updates already received and the kline coroutine may run the step
\* that was ready before (ready = "market"); then the tasks run (ready =
\* "tasks") and only then the next order update is handled.  The exchange
\* fills orders on its own.
NextLoop ==
    \/ LoopCandleClose
    \/ UserDataCallback
    \/ FillTask
    \/ ExchangeFill

SpecLoop == InitLoop /\ [][NextLoop]_vars

\* ------------------------------------------------------- orders on the grid

\* TradingService._create_hedge_order: the stop price is the lowest or the
\* highest price of the last candles, the quantity the entry's quantity times
\* the multiplier.
TradingHedgeOrder ==
    /\ strategy = "CASCADE_MASTER"
    /\ \E size \in GridSizes, value \in 1..MaxRaw, cached \in BOOLEAN :
         LET hedge_qty == FormatQuantity(value, size) * QUANTITY_MULTIPLIER IN
         \/ grid' = Placed("HEDGE", "price", size, value, FormatStopPrice(value))
         \/ grid' = Placed("HEDGE", "quantity", size, hedge_qty,
                           IF cached THEN FormatQuantity(hedge_qty, size)
                                     ELSE RoundNearest(hedge_qty, 3))
    /\ UNCHANGED <<strategy, dynamic_rsi, exchange, aon, oom, acc, cascade,
                   tp, cycle_entries, signal, manager, market_ws, user_ws,
                   run_bot, tasks, retry, ready, trailing>>

\* OneOrMoreService._create_hedge_order and _create_tp_order: a price
\* computed from the entry price.
StrategyStopOrder ==
    /\ strategy = "ONE_OR_MORE"
    /\ \E size \in GridSizes, value \in 1..MaxRaw :
         \/ grid' = Placed("STOP", "price", size, value,
                           FormatPriceWithPrecision(value, size))
         \/ grid' = Placed("STOP", "quantity", size, value,
                           FormatQuantity(value, size))
    /\ UNCHANGED <<strategy, dynamic_rsi, exchange, aon, oom, acc, cascade,
                   tp, cycle_entries, signal, manager, market_ws, user_ws,
                   run_bot, tasks, retry, ready, trailing>>

\* CascadeService._create_next_cascade_order: the reference price of the
\* side and the quantity 2 x dominant - other.
CascadeChildOrder ==
    /\ strategy = "CASCADE_MASTER"
    /\ \E size \in GridSizes, value \in 1..MaxRaw, cached \in BOOLEAN :
         \/ grid' = Placed("CHILD", "price", size, value,
                           FormatCascadePrice(value, size, cached))
         \/ /\ FormatCascadeQuantity(value, size, cached) > 0
            /\ grid' = Placed("CHILD", "quantity", size, value,
                              FormatCascadeQuantity(value, size, cached))
    /\ UNCHANGED <<strategy, dynamic_rsi, exchange, aon, oom, acc, cascade,
                   tp, cycle_entries, signal, manager, market_ws, user_ws,
                   run_bot, tasks, retry, ready, trailing>>

NextGrid ==
    \/ TradingHedgeOrder
    \/ StrategyStopOrder
    \/ CascadeChildOrder

SpecGrid == InitBot /\ [][NextGrid]_vars

\* ------------------------------------------------------- the retry wrapper

\* What one attempt of operation() can give: a true value, a false value, or
\* an exception.
AttemptOutcomes == {"True", "False", "raise"}

\* _retry_operation line 172 with a delay that does not grow.
RetryDelayFlat(attempt) == 2

\* _retry_operation line 172: delay = 2 * attempt
RetryDelay(attempt) == 2 * attempt

InitRetry == InitBot /\ strategy = "ALL_OR_NOTHING"

\* execute_signal lines 838 and 864 call the wrapper for the SL and, when
\* the dynamic RSI exit is disabled, for the fixed TP.
RetryCall ==
    /\ retry.pc = "idle"
    /\ \E name \in {"SL"} \cup (IF dynamic_rsi THEN {} ELSE {"TP"}) :
          retry' = [RetryInit EXCEPT !.pc = "try", !.operation_name = name,
                                     !.attempt = 1]
    /\ UNCHANGED <<strategy, dynamic_rsi, exchange, aon, oom, acc, cascade,
                   tp, cycle_entries, signal, manager, market_ws, user_ws,
                   run_bot, tasks, grid, ready, trailing>>

\* One pass of the for loop up to the delay: operation() is called inside
\* try/except; a true value returns True, the last failed attempt leaves
\* the loop and returns False.
RetryAttempt ==
    /\ retry.pc = "try"
    /\ \E r \in AttemptOutcomes :
          retry' =
            IF r = "True"
              THEN [retry EXCEPT !.outcomes = Append(@, r), !.pc = "done",
                                 !.ret = "True"]
            ELSE IF retry.attempt < max_attempts
              THEN [retry EXCEPT !.outcomes = Append(@, r), !.pc = "sleep"]
            ELSE [retry EXCEPT !.outcomes = Append(@, r), !.pc = "done",
                               !.ret = "False"]
    /\ UNCHANGED <<strategy, dynamic_rsi, exchange, aon, oom, acc, cascade,
                   tp, cycle_entries, signal, manager, market_ws, user_ws,
                   run_bot, tasks, grid, ready, trailing>>

\* time.sleep(delay) returns and the loop goes to the next attempt.
RetrySleep ==
    /\ retry.pc = "sleep"
    /\ retry' = [retry EXCEPT !.delays = Append(@, RetryDelay(retry.attempt)),
                              !.attempt = @ + 1, !.pc = "try"]
    /\ UNCHANGED <<strategy, dynamic_rsi, exchange, aon, oom, acc, cascade,
                   tp, cycle_entries, signal, manager, market_ws, user_ws,
                   run_bot, tasks, grid, ready, trailing>>

NextRetry ==
    \/ RetryCall
    \/ RetryAttempt
    \/ RetrySleep

SpecRetry == InitRetry /\ [][NextRetry]_vars

\* The wrapper is straight-line synchronous code: a started call of
\* operation() returns or raises, and time.sleep returns.  Nothing obliges
\* the service to call the wrapper.
SpecRetryFair ==
    /\ SpecRetry
    /\ WF_vars(RetryAttempt)
    /\ WF_vars(RetrySleep)

\* ------------------------------------------------------- the trailing stop

\* TRAILING_STOP["PRICE_TRIGGER_PERCENT"] and ["SL_ADJUSTMENT_PERCENT"]
\* (0.005 each in config.py), in thousandths.
PRICE_TRIGGER_PERCENT == 5

SL_ADJUSTMENT_PERCENT == 5

\* tickSize of the symbol, in ticks of the finest grid.
TickSizes == {1, 10}

ClosePrices == MinPrice..MaxPrice

\* Distance of the computed stop-loss from the entry (_calculate_sl_price:
\* the lowest low of the lookback less an offset, the highest high plus one).
SlDistances == {1, 2}

\* BinanceAPIClient.format_price(price, symbol) for the price num/den: the
\* method is not among those of src/api/binance_client.py.  Either the call
\* fails (the AttributeError is caught by _format_price_with_precision, which
\* returns None, here 0) or the gateway returns the price rounded down to
\* the symbol's tick, as the exchange gateway is specified to.
GatewayFormatPrice(num, den, tick_size) ==
    {0, ((num \div den) \div tick_size) * tick_size}

\* _check_trailing_stop_condition: the close is PRICE_TRIGGER_PERCENT or more
\* beyond the reference, upward for LONG and downward for SHORT.
CheckTrailingStopCondition(side, reference_price, current_price) ==
    /\ TRAILING_STOP_ENABLED
    /\ reference_price > 0
    /\ IF side = "LONG"
         THEN (current_price - reference_price) * 1000
                 >= PRICE_TRIGGER_PERCENT * reference_price
         ELSE (reference_price - current_price) * 1000
                 >= PRICE_TRIGGER_PERCENT * reference_price

\* _execute_trailing_stop_adjustment lines 446 and 461 with both sides raised.
NewSlPriceRaised(side, current_sl_price) ==
    current_sl_price * (1000 + SL_ADJUSTMENT_PERCENT)

\* _execute_trailing_stop_adjustment lines 446 and 461: the new level in
\* thousandths, current_sl_price * (1 + Y) for LONG and * (1 - Y) for SHORT.
NewSlPrice(side, current_sl_price) ==
    IF side = "LONG"
      THEN current_sl_price * (1000 + SL_ADJUSTMENT_PERCENT)
      ELSE current_sl_price * (1000 - SL_ADJUSTMENT_PERCENT)

\* BinanceAPIClient.cancel_order of a stop: None, or the order is cancelled.
CancelStop(stops, sl) == {stops, stops \ {sl}}

\* _update_stop_loss_order: the old SL is cancelled (result only logged) and
\* the new one placed; active_sl changes only when the new order was accepted.
UpdateStopLossOrder(t, new_sl_price) ==
    UNION { { [t EXCEPT !.open_stops = stops] }
            \cup (IF t.next_order_id <= MaxStopId
                    THEN { LET sl == [orderId |-> t.next_order_id,
                                      stopPrice |-> new_sl_price] IN
                           [t EXCEPT !.open_stops = stops \cup {sl},
                                     !.next_order_id = @ + 1,
                                     !.active_sl = sl,
                                     !.trailing_reference = t.current_price] }
                    ELSE {})
            : stops \in CancelStop(t.open_stops, t.active_sl) }

\* _execute_trailing_stop_adjustment: the new level is formatted, the SL
\* order replaced and, after a successful replacement only, the reference
\* set to the close (lines 487-490, folded into UpdateStopLossOrder).
ExecuteTrailingStopAdjustment(t) ==
    UNION { IF formatted_new_sl = 0
              THEN {t}
              ELSE UpdateStopLossOrder(t, formatted_new_sl)
            : formatted_new_sl \in
                GatewayFormatPrice(NewSlPrice(t.position_side, t.active_sl.stopPrice),
                                   1000, t.tick_size) }

InitTrailing == InitBot /\ strategy = "ALL_OR_NOTHING"

\* execute_signal lines 821-846 and _create_stop_loss: the side is marked
\* active and its reference set to the entry price; the SL is formatted and
\* placed; when that fails the position is not kept.  The symbol's tickSize
\* is read at the first entry.
TrailingEntry ==
    /\ ~trailing.active_position
    /\ \E side \in Sides, entry_price \in ClosePrices, d \in SlDistances,
          tick_size \in IF trailing.position_side = "NONE"
                          THEN TickSizes ELSE {trailing.tick_size} :
         LET sl_price == IF side = "LONG" THEN entry_price - d ELSE entry_price + d
             t == [trailing EXCEPT !.position_side = side,
                                   !.tick_size = tick_size,
                                   !.trailing_reference = entry_price,
                                   !.current_price = entry_price]
         IN \E formatted_sl_price \in GatewayFormatPrice(sl_price, 1, tick_size) :
              \E placed \in BOOLEAN :
                 trailing' =
                   IF formatted_sl_price # 0 /\ placed /\ t.next_order_id <= MaxStopId
                     THEN LET sl == [orderId |-> t.next_order_id,
                                     stopPrice |-> formatted_sl_price] IN
                          [t EXCEPT !.active_position = TRUE,
                                    !.active_sl = sl,
                                    !.open_stops = @ \cup {sl},
                                    !.next_order_id = @ + 1]
                     ELSE t
    /\ UNCHANGED <<strategy, dynamic_rsi, exchange, aon, oom, acc, cascade,
                   tp, cycle_entries, signal, manager, market_ws, user_ws,
                   run_bot, tasks, grid, retry, ready>>

\* process_candle_close_for_trailing_stop for the side that is active with
\* an SL: the condition is checked on the close and, when met, the SL
\* adjusted.
TrailingCandleClose ==
    /\ trailing.active_position
    /\ trailing.active_sl # NoStop
    /\ \E current_price \in ClosePrices :
         LET t == [trailing EXCEPT !.current_price = current_price] IN
         trailing' \in
            IF CheckTrailingStopCondition(t.position_side, t.trailing_reference,
                                          current_price)
              THEN ExecuteTrailingStopAdjustment(t)
              ELSE {t}
    /\ UNCHANGED <<strategy, dynamic_rsi, exchange, aon, oom, acc, cascade,
                   tp, cycle_entries, signal, manager, market_ws, user_ws,
                   run_bot, tasks, grid, retry, ready>>

\* The SL the side tracks triggers and its FILLED update is handled
\* (_reset_position_for_order): the position and the SL reference are
\* cleared, the trailing reference stays until the next entry.
TrailingStopFilled ==
    /\ trailing.active_position
    /\ trailing.active_sl \in trailing.open_stops
    /\ trailing' = [trailing EXCEPT !.active_position = FALSE,
                                    !.active_sl = NoStop,
                                    !.open_stops = @ \ {trailing.active_sl}]
    /\ UNCHANGED <<strategy, dynamic_rsi, exchange, aon, oom, acc, cascade,
                   tp, cycle_entries, signal, manager, market_ws, user_ws,
                   run_bot, tasks, grid, retry, ready>>

NextTrailing ==
    \/ TrailingEntry
    \/ TrailingCandleClose
    \/ TrailingStopFilled

SpecTrailing == InitTrailing /\ [][NextTrailing]_vars

\* ----------------------------------------------------------------- claims

\* StrategyManager.execute_signal: the signal goes to the configured strategy.
SignalOutcomes(side) ==
    CASE strategy = "ALL_OR_NOTHING" ->
            AonExecuteSignal(World(exchange, aon), side, dynamic_rsi)
      [] strategy = "ONE_OR_MORE" ->
            OomStrategyExecuteSignal(World(exchange, oom), side)
      [] strategy = "ACCUMULATOR" ->
            AccExecuteSignalStrategy(World(exchange, acc), side)
      [] OTHER ->
            CascadeExecuteSignal(World(exchange, Services(cascade, tp)), side)

\* The FILLED update at the head of the user data stream, and the exchange
\* as the handler of that update finds it.
HeadEvent == Head(exchange.events)

AfterDelivery == [exchange EXCEPT !.events = Tail(@)]

EventPending(id) ==
    \E i \in 1..Len(exchange.events) : exchange.events[i].id = id

Abs(n) == IF n < 0 THEN -n ELSE n

\* can_accept_signal(side) = false as the claims spell it out, read off the
\* service state.
GateClosed(side) ==
    \/ strategy = "ALL_OR_NOTHING" /\ aon.active_position[side]
    \/ strategy = "ONE_OR_MORE"
         /\ (oom.active_position["LONG"] \/ oom.active_position["SHORT"])
    \/ strategy = "ACCUMULATOR" /\ acc.accumulation_count[side] >= MAX_ACCUMULATIONS

\* C1: signal gate.  In every reachable state and for every side whose gate
\* is closed (ALL_OR_NOTHING: the side is active; ONE_OR_MORE: any side is
\* active; ACCUMULATOR: the side's accumulation count has reached
\* MAX_ACCUMULATIONS), every way the signal handler can run for that side
\* places no entry and leaves the exchange's orders and positions untouched.
C1_SignalGate ==
    \A side \in Sides :
        GateClosed(side) =>
            \A o \in SignalOutcomes(side) : ~o.entered /\ o.w.x = exchange

\* A side holds a position, its gate is closed, and a signal for it is refused.
C1_Witness ==
    \E side \in Sides :
        /\ GateClosed(side)
        /\ exchange.position[side] > 0
        /\ \E o \in SignalOutcomes(side) : o.note = "gate_closed"

\* C2: at most one MARKET entry is placed per side and cycle, also when a
\* step after the entry fails: the number of entries placed on a side since
\* its last cycle end never exceeds one.
C2_OneEntryPerCycle ==
    strategy # "ACCUMULATOR" => \A side \in Sides : cycle_entries[side] <= 1

\* C3: pair completeness (ALL_OR_NOTHING).  Between handlers (no retry window
\* is open then), an active side whose SL and TP have no FILLED update in
\* flight has a live SL, and a live TP unless the fixed TP is disabled.
C3_PairCompleteness ==
    strategy = "ALL_OR_NOTHING" =>
        \A side \in Sides :
            (/\ aon.active_position[side]
             /\ ~EventPending(aon.active_sl[side])
             /\ ~EventPending(aon.active_tp[side]))
            => /\ IsLive(exchange, aon.active_sl[side])
               /\ (dynamic_rsi \/ IsLive(exchange, aon.active_tp[side]))

\* C4: protective-order fatal.  Whenever the SL or TP retries are exhausted
\* after an entry, the RuntimeError raised in the service is what the
\* top-level bot gets to see.
C4_RuntimeErrorSurfaced ==
    strategy = "ALL_OR_NOTHING" =>
        \A side \in Sides :
            \A o \in AonExecuteSignalBody(World(exchange, aon), side, dynamic_rsi) :
                o.note \in {"sl_exhausted", "tp_exhausted"}
                    => BotSees(o.ret) = "RuntimeError"

\* C5: retry exhaustion cleanup (ALL_OR_NOTHING).  Whenever the SL or the TP
\* retries are exhausted, the side is cleared and no order placed by the
\* failed cycle is live on the exchange when the handler returns.
C5_RetryExhaustionCleanup ==
    strategy = "ALL_OR_NOTHING" =>
        \A side \in Sides :
            \A o \in AonExecuteSignal(World(exchange, aon), side, dynamic_rsi) :
                o.note \in {"sl_exhausted", "tp_exhausted"}
                    => /\ ~o.w.s.active_position[side]
                       /\ o.w.s.active_sl[side] = 0
                       /\ o.w.x.open_orders \subseteq exchange.open_orders

\* The orders the running cycle refers to.
OomCycleOrders ==
    {oom.active_hedge[s] : s \in Sides} \cup {oom.active_tp[s] : s \in Sides}
        \cup {oom.active_tp_hedge[s] : s \in Sides}

CascadeCycleOrders ==
    cascade.pending_orders \cup {cascade.initial_hedge_order}
        \cup {tp.active_tp[s] : s \in Sides}

Flat(x) == \A s \in Sides : x.position[s] = 0

\* C6: teardown completeness.  Whenever a TP-triggered teardown returns
\* (ONE_OR_MORE: the FILLED update of a TP is handled; CASCADE_MASTER: the
\* poll finds a TP FILLED), no order of the cycle is open and both positions
\* are zero, whatever the order of cancels, closes and fills.
C6_TeardownCompleteness ==
    /\ (strategy = "ONE_OR_MORE" /\ exchange.events # <<>>) =>
          \A d \in OomHandleOrderExecution(World(AfterDelivery, oom), HeadEvent.id) :
              d.ended = Sides =>
                  /\ LiveIds(d.w.x) \cap OomCycleOrders = {}
                  /\ Flat(d.w.x)
    /\ strategy = "CASCADE_MASTER" =>
          \A d \in CascadeCheckTp(World(exchange, Services(cascade, tp))) :
              d.note = "teardown" =>
                  /\ LiveIds(d.w.x) \cap CascadeCycleOrders = {}
                  /\ Flat(d.w.x)

\* The FILLED update of a pending cascade child is about to be handled.
ChildFillDelivered ==
    /\ strategy = "CASCADE_MASTER"
    /\ exchange.events # <<>>
    /\ HeadEvent.id \in cascade.pending_orders
    /\ HeadEvent.id # cascade.initial_hedge_order

\* |L - S| of the cascade's cumulative quantities.
Imbalance(c) == Abs(c.current_quantity["LONG"] - c.current_quantity["SHORT"])

ChildOutcomes ==
    CascadeHandleOrderExecution(World(AfterDelivery, Services(cascade, tp)), HeadEvent)

\* C7 (as stated): after the k-th cascade child fills, |L - S| equals the
\* quantity of that child.
C7_CascadeSymmetry ==
    ChildFillDelivered =>
        \A w \in ChildOutcomes : Imbalance(w.s.c) = HeadEvent.qty

\* C7 (amended): after the k-th cascade child fills, |L - S| equals the
\* cumulative quantity the other side held before the fill (the filled side
\* is now exactly twice the other side), which is strictly less than the
\* child's quantity, and the filled side dominates.
C7_CascadeSymmetryAmended ==
    ChildFillDelivered =>
        LET filled == HeadEvent.ps
            other == Opposite(HeadEvent.ps)
        IN \A w \in ChildOutcomes :
            /\ Imbalance(w.s.c) = cascade.current_quantity[other]
            /\ Imbalance(w.s.c) < HeadEvent.qty
            /\ w.s.c.current_quantity[filled] = 2 * w.s.c.current_quantity[other]
            /\ w.s.c.current_quantity[filled] > w.s.c.current_quantity[other]

\* The second child of a cascade has filled and its update is being handled.
C7_Witness ==
    /\ ChildFillDelivered
    /\ cascade.cascade_orders_count = 3
    /\ HeadEvent.qty = 6

LiveTps(side) == {o \in exchange.open_orders : o.type = "TP" /\ o.ps = side}

\* C8: exactly one exit-defining TP.  While an ACCUMULATOR side has
\* accumulated (its TP not yet found FILLED), and while a CASCADE side holds
\* cumulative quantity after a hedge or child fill (no TP FILLED), exactly one
\* TP order of that side is live and its quantity is the side's full quantity.
C8_ExactlyOneTp ==
    \A side \in Sides :
        /\ (/\ strategy = "ACCUMULATOR"
            /\ acc.accumulation_count[side] > 0
            /\ acc.active_tp[side] \notin exchange.filled)
           => /\ Cardinality(LiveTps(side)) = 1
              /\ \A o \in LiveTps(side) : o.qty = exchange.position[side]
        /\ (/\ strategy = "CASCADE_MASTER"
            /\ cascade.state \in {"ACTIVE", "STOPPED"}
            /\ cascade.current_quantity[side] > 0
            /\ exchange.filled = {})
           => /\ Cardinality(LiveTps(side)) = 1
              /\ \A o \in LiveTps(side) : o.qty = cascade.current_quantity[side]

\* C9: ONE_OR_MORE runs one cycle at a time.  The two sides are never active
\* together, an inactive side holds no order reference, and while any side
\* is active every way a signal for either side can run is refused and
\* changes nothing.
C9_OneCycleAtATime ==
    strategy = "ONE_OR_MORE" =>
        /\ ~(oom.active_position["LONG"] /\ oom.active_position["SHORT"])
        /\ \A s \in Sides :
              ~oom.active_position[s] =>
                  /\ oom.active_hedge[s] = 0
                  /\ oom.active_tp[s] = 0
                  /\ oom.active_tp_hedge[s] = 0
        /\ (oom.active_position["LONG"] \/ oom.active_position["SHORT"]) =>
              \A side \in Sides :
                  \A o \in OomStrategyExecuteSignal(World(exchange, oom), side) :
                      ~o.entered /\ o.w = World(exchange, oom)

\* A SHORT-signal cycle whose hedge has filled and got its TP: the LONG side
\* holds the hedge position while the SHORT side is the active one.
C9_Witness ==
    /\ strategy = "ONE_OR_MORE"
    /\ oom.active_position["SHORT"]
    /\ oom.active_tp_hedge["SHORT"] # 0
    /\ exchange.position["LONG"] > 0
    /\ exchange.position["SHORT"] > 0

\* C10: ONE_OR_MORE full teardown.  Once the FILLED update of the signal TP or
\* of the hedge TP has been handled, no order the cycle referred to is live,
\* the service state is cleared and the gate is open for both sides.
C10_FullTeardown ==
    (strategy = "ONE_OR_MORE" /\ exchange.events # <<>>) =>
        \A d \in OomHandleOrderExecution(World(AfterDelivery, oom), HeadEvent.id) :
            d.ended = Sides =>
                /\ LiveIds(d.w.x) \cap OomCycleOrders = {}
                /\ d.w.s = OomInit
                /\ ~has_any_active_position(d.w.s)

\* C11: ACCUMULATOR rejects a signal on a side exactly when the side's
\* accumulation_count has reached MAX_ACCUMULATIONS: then every run of the
\* signal handler is the "limit reached" refusal and changes nothing, below
\* the limit no run is that refusal; and the count stays in
\* 0..MAX_ACCUMULATIONS.
C11_AccumulatorLimit ==
    strategy = "ACCUMULATOR" =>
        \A side \in Sides :
            LET outcomes == AccExecuteSignalStrategy(World(exchange, acc), side) IN
            /\ acc.accumulation_count[side] \in 0..MAX_ACCUMULATIONS
            /\ acc.accumulation_count[side] = MAX_ACCUMULATIONS =>
                  \A o \in outcomes :
                      o.note = "gate_closed" /\ o.w = World(exchange, acc)
            /\ acc.accumulation_count[side] < MAX_ACCUMULATIONS =>
                  /\ \A o \in outcomes : o.note # "gate_closed"
                  /\ \E o \in outcomes : o.note \in {"entry_failed", "executed"}

\* One side has reached the limit after a reset of the other side: its TP
\* was found FILLED and the count cleared.
C11_Witness ==
    /\ strategy = "ACCUMULATOR"
    /\ \E side \in Sides :
          /\ acc.accumulation_count[side] = MAX_ACCUMULATIONS
          /\ acc.accumulation_count[Opposite(side)] = 0
          /\ exchange.filled # {}

\* C12: shutdown preserves exchange-side orders.  In every reachable state of
\* the running bot and for whichever strategy is active, every way
\* _cleanup_resources can run leaves the exchange's open orders and
\* positions exactly as they were.
C12_ShutdownPreservesOrders ==
    run_bot = "gather" =>
        \A r \in CleanupResources(manager, BotState) :
            /\ r.b.exchange.open_orders = exchange.open_orders
            /\ r.b.exchange.position = exchange.position

\* The place of the first occurrence of a call in a sequence of calls, 0
\* when there is none.
FirstCall(calls, name) ==
    IF \E i \in 1..Len(calls) : calls[i] = name
      THEN CHOOSE i \in 1..Len(calls) :
              /\ calls[i] = name
              /\ \A j \in 1..(i - 1) : calls[j] # name
      ELSE 0

\* C13: swapping strategies drains the current strategy first.  For every
\* reachable state of the running bot and every way switch_strategy can run:
\* when a strategy is installed the current one was cleaned up before, a
\* strategy is active afterwards, and a failed switch leaves the type of the
\* manager's strategy, the configured type, the state of the strategy's
\* service and the exchange as they were.
C13_SwitchDrainsFirst ==
    run_bot = "gather" =>
        \A new_type \in SwitchTargets, valid, made, made_again \in BOOLEAN :
            (new_type = "UNKNOWN" => ~valid) =>
                \A r \in SwitchStrategy(manager, BotState, strategy, new_type,
                                        valid, made, made_again) :
                    /\ FirstCall(r.calls, "install") # 0 =>
                          /\ FirstCall(r.calls, "cleanup") # 0
                          /\ FirstCall(r.calls, "cleanup") < FirstCall(r.calls, "install")
                    /\ r.m.current_strategy # 0
                    /\ ~r.ok => /\ r.m.current_strategy_type = strategy
                                /\ r.type = strategy
                                /\ r.b = BotState

\* C14: bounded reconnection.  Whenever one of the two stream loops is about
\* to make a connection attempt that is not its first, it has waited
\* DELAY_SECONDS since the previous connection ended; and a loop whose count
\* of consecutive failures has reached MAX_ATTEMPTS has terminated.
C14_BoundedReconnection ==
    /\ (market_ws.pc = "connect" /\ market_ws.retry)
          => market_ws.waited = DELAY_SECONDS
    /\ (user_ws.pc = "connect" /\ user_ws.retry)
          => user_ws.waited = DELAY_SECONDS
    /\ market_ws.reconnection_attempts >= MAX_ATTEMPTS => market_ws.pc = "done"
    /\ user_ws.reconnect_count >= MAX_ATTEMPTS => user_ws.pc = "done"

\* One of the two stream loops has given up after its maximum of consecutive
\* failures.
GaveUp ==
    \/ market_ws.reconnection_attempts >= MAX_ATTEMPTS
    \/ user_ws.reconnect_count >= max_reconnect_attempts

\* C15: whenever one of the two stream loops has given up, the supervisor
\* eventually shuts the whole process down: run_bot leaves asyncio.gather,
\* stops both loops and runs its cleanup.
C15_GiveUpShutsDown == GaveUp ~> (run_bot = "stopped")

\* The kline stream is connected and the bot handles its messages.
MarketListening ==
    run_bot = "gather" /\ market_ws.is_running /\ market_ws.pc = "listen"

\* The programs a closed candle with the given readings can leave behind.
FeedCandle(b, rsi, ha) ==
    { h.b : h \in ProcessSignalDetection(manager, b, rsi, ha) }

\* C16: idempotent candle close.  Feeding the same closed candle (the same
\* RSI and Heikin-Ashi readings) a second time changes nothing: whatever the
\* first feed left behind - signal engine, strategy state, orders - is what
\* the second feed leaves behind.
C16_IdempotentCandleClose ==
    MarketListening =>
        \A rsi \in RsiReadings, ha \in HaReadings :
            \A once \in FeedCandle(BotState, rsi, ha) :
                \A twice \in FeedCandle(once, rsi, ha) : twice = once

\* C17: a confirmed signal is emitted exactly once.  At every closed candle
\* the engine confirms a signal exactly when it returns one; a returned
\* signal is handed to the strategy manager exactly once in that same call
\* and the engine is back in WAITING with nothing latched when the call
\* returns; without a returned signal nothing is handed over.  Between
\* candles no confirmed signal is left latched that could be emitted again.
C17_SignalEmittedOnce ==
    /\ signal.current_state # "SIGNAL_CONFIRMED"
    /\ signal.confirmed_signal = "None"
    /\ MarketListening =>
          \A rsi \in RsiReadings, ha \in HaReadings :
              LET e == ProcessMarketData(signal, cascade, tp, rsi, ha) IN
              /\ (e.signal.current_state = "SIGNAL_CONFIRMED") <=> (e.ret # "None")
              /\ e.ret # "None" => e.ret = e.signal.confirmed_signal
              /\ \A h \in ProcessSignalDetection(manager, BotState, rsi, ha) :
                    /\ e.ret # "None" => /\ h.handed = 1
                                         /\ h.emitted = e.ret
                                         /\ h.b.signal = SignalInit
                    /\ e.ret = "None" => h.handed = 0

\* A LONG signal was confirmed, handed over and executed; the engine has been
\* armed again and the next candle confirms a SHORT signal, which is handed
\* over in turn.
C17_Witness ==
    /\ MarketListening
    /\ cycle_entries["LONG"] = 1
    /\ exchange.position["LONG"] > 0
    /\ signal.current_state = "RSI_CONDITION_MET"
    /\ \E h \in ProcessSignalDetection(manager, BotState, "neutral", "red") :
          h.emitted = "short" /\ h.handed = 1

\* The active strategy holds a reference to a TP order it placed.
OutstandingTp ==
    \E s \in Sides :
        \/ strategy = "ALL_OR_NOTHING" /\ aon.active_tp[s] # 0
        \/ strategy = "ONE_OR_MORE" /\ (oom.active_tp[s] # 0 \/ oom.active_tp_hedge[s] # 0)
        \/ strategy = "ACCUMULATOR" /\ acc.active_tp[s] # 0
        \/ strategy = "CASCADE_MASTER" /\ tp.active_tp[s] # 0

\* C18: at every candle close the signal engine returns no signal for a side
\* the active strategy would refuse (its gate is closed for that side), and
\* no signal at all while the active strategy has an outstanding TP order.
C18_EngineGate ==
    \A rsi \in RsiReadings, ha \in HaReadings :
        LET e == ProcessMarketData(signal, cascade, tp, rsi, ha) IN
        /\ e.ret # "None" => ~GateClosed(Upper(e.ret))
        /\ OutstandingTp => e.ret = "None"

\* The order ids the active strategy's order-update handler tracks.
Tracked(id) ==
    /\ id # 0
    /\ \/ strategy = "ALL_OR_NOTHING"
            /\ \E s \in Sides : aon.active_sl[s] = id \/ aon.active_tp[s] = id
       \/ strategy = "ONE_OR_MORE"
            /\ \E s \in Sides : \/ oom.active_hedge[s] = id
                                \/ oom.active_tp[s] = id
                                \/ oom.active_tp_hedge[s] = id
       \/ strategy = "CASCADE_MASTER"
            /\ (cascade.initial_hedge_order = id \/ id \in cascade.pending_orders)

\* The orders an update can be about: the open ones, a TP already filled,
\* and ids the program never saw.
UpdatedOrders ==
    exchange.open_orders
        \cup {Order(id, "TP", s, InitialQuantity)
              : id \in 1..(MaxOrderId + 1), s \in Sides}

\* The ways the active strategy's handler of order updates can run, each
\* reduced to whether it left the exchange and the services untouched.
OrderUpdateLeavesAll(status, u) ==
    CASE strategy = "ALL_OR_NOTHING" ->
            \A d \in AonHandleOrderUpdate(World(exchange, aon), status, u.id) :
                d.w = World(exchange, aon)
      [] strategy = "ONE_OR_MORE" ->
            \A d \in OomHandleOrderUpdate(World(exchange, oom), status, u.id) :
                d.w = World(exchange, oom)
      [] OTHER ->
            \A w \in CascadeHandleOrderUpdate(
                         World(exchange, Services(cascade, tp)), status, "SYMBOL", u) :
                w = World(exchange, Services(cascade, tp))

\* C19: an order update whose status is not FILLED, or whose order id the
\* active strategy's handler does not track, changes no service state and
\* places or cancels no order, whichever way the handler runs.
C19_IgnoredUpdates ==
    \A status \in OrderStatuses, u \in UpdatedOrders :
        (status # "FILLED" \/ ~Tracked(u.id)) => OrderUpdateLeavesAll(status, u)

\* CASCADE_MASTER: the hedge stop is live and tracked, so an update of it
\* with another status than FILLED can arrive, while the FILLED update of the
\* TP, an order the handler does not track, is at the head of the stream.
C19_Witness ==
    /\ strategy = "CASCADE_MASTER"
    /\ IsLive(exchange, cascade.initial_hedge_order)
    /\ Tracked(cascade.initial_hedge_order)
    /\ exchange.events # <<>>
    /\ ~Tracked(HeadEvent.id)
    /\ \E w \in CascadeHandleOrderUpdate(World(exchange, Services(cascade, tp)),
                                         "FILLED", "SYMBOL",
                                         CHOOSE o \in exchange.open_orders :
                                             o.id = cascade.initial_hedge_order) :
          w # World(exchange, Services(cascade, tp))

\* The order-update handler of the active strategy, given a FILLED update:
\* AllOrNothingStrategy and OneOrMoreStrategy.handle_order_execution_from_websocket
\* hand it to their service, CASCADE_MASTER works through the cascade
\* service; AccumulatorStrategy has no such handler.
StrategyHandleOrderExecution(b, e) ==
    CASE strategy = "ALL_OR_NOTHING" ->
            { [b EXCEPT !.exchange = d.w.x, !.aon = d.w.s]
              : d \in AonHandleOrderUpdate(World(b.exchange, b.aon), "FILLED", e.id) }
      [] strategy = "ONE_OR_MORE" ->
            { [b EXCEPT !.exchange = d.w.x, !.oom = d.w.s]
              : d \in OomHandleOrderUpdate(World(b.exchange, b.oom), "FILLED", e.id) }
      [] strategy = "ACCUMULATOR" -> {b}
      [] OTHER -> BotHandleOrderExecution(b, e)

\* The user data stream is connected and the bot handles its messages.
UserListening ==
    run_bot = "gather" /\ user_ws.is_running /\ user_ws.pc = "listen"

\* C20: every FILLED update of the configured symbol is dispatched to the
\* active strategy: what the bot's order execution handler does with the
\* update at the head of the stream is what the active strategy's own
\* order-update handler does with it.
C20_DispatchToActiveStrategy ==
    (UserListening /\ exchange.events # <<>>) =>
        LET delivered == [BotState EXCEPT !.exchange.events = Tail(@)] IN
        BotHandleOrderExecution(delivered, HeadEvent)
            = StrategyHandleOrderExecution(delivered, HeadEvent)

\* C21: strategy state is accessed from one serialization domain, each
\* handling of a candle or order update atomic with respect to the others:
\* whenever a fill-processing task waits in the event loop, the state on
\* which its update was handled is still in place, that is, its order is
\* still the hedge or the pending child the handler took it for; no other
\* handler has changed the state between the two halves of the handling.
C21_AtomicHandling ==
    \A i \in 1..Len(tasks) : ScheduleFill(cascade, tasks[i].e) = <<tasks[i]>>

\* The trading services as a task finds them in program b, and b as the task
\* leaves it.
TaskWorld(b) == World(b.exchange, Services(b.cascade, b.tp))

AfterTask(b, w) ==
    [b EXCEPT !.exchange = w.x, !.cascade = w.s.c, !.tp = w.s.t]

\* The closed candle is handled first and the oldest task runs after it.
CandleThenTask(rsi, ha) ==
    UNION { { AfterTask(b, w) : w \in RunFillTask(TaskWorld(b), Head(tasks)) }
            : b \in FeedCandle(BotState, rsi, ha) }

\* The oldest task runs first and the closed candle is handled after it.
TaskThenCandle(rsi, ha) ==
    UNION { FeedCandle(AfterTask(BotState, w), rsi, ha)
            : w \in RunFillTask(TaskWorld(BotState), Head(tasks)) }

\* C22: the effect of a FILLED event is in place before any later candle
\* close whose handling depends on it: while the task of a FILLED update
\* waits in the loop, a closed candle that can be handled now does not
\* depend on the task's effect, that is, handling it before the task leaves
\* the program as handling it after the task does.
C22_FillBeforeCandle ==
    (MarketListening /\ tasks # <<>> /\ ready # "tasks") =>
        \A rsi \in RsiReadings, ha \in HaReadings :
            CandleThenTask(rsi, ha) = TaskThenCandle(rsi, ha)

\* The largest multiple of the grid size that does not exceed the value.
RoundDownToGrid(value, size) == (value \div size) * size

\* C23: grid conformance: for every order placed, the price sent is the
\* computed price rounded down to a multiple of tick_size and the quantity
\* sent is the computed quantity rounded down to a multiple of step_size;
\* nothing is rounded to the nearest or half-up.
C23_GridConformance ==
    grid.kind # "NONE" => grid.sent = RoundDownToGrid(grid.value, grid.size)

\* The cascade children this step places.
NewChildren ==
    { o \in exchange'.open_orders \ exchange.open_orders : o.type = "CHILD" }

ChildTaskNext == tasks # <<>> /\ Head(tasks).kind = "cascade"

\* C25: cascade order limit: cascade_orders_count is incremented once per
\* cascade child fill, and the processing of a child fill ends in STOPPED
\* exactly when the count so incremented has reached MAX_ORDERS (a refused
\* child apart), the positions left as they are.
C25_OrderLimit ==
    ChildTaskNext =>
        \A w \in RunFillTask(TaskWorld(BotState), Head(tasks)) :
            /\ w.s.c.cascade_orders_count = cascade.cascade_orders_count + 1
            /\ cascade.cascade_orders_count + 1 >= MAX_ORDERS
                   => w.s.c.state = "STOPPED"
            /\ w.x.position = exchange.position

\* C26: cascade TP execution: when the poll finds either side's TP FILLED,
\* the teardown leaves no cascade child and no hedge of the cycle live, the
\* other side's TP is not live, both positions are flat, and the cascade
\* state is reset: INACTIVE, zero quantities, no reference price, no pending
\* order, no TP reference.
C26_TpExecution ==
    \A d \in CascadeCheckTp(TaskWorld(BotState)) :
        d.note = "teardown" =>
            /\ LiveIds(d.w.x) \cap CascadeCycleOrders = {}
            /\ Flat(d.w.x)
            /\ d.w.s.c.state = "INACTIVE"
            /\ \A s \in Sides : /\ d.w.s.c.current_quantity[s] = 0
                                /\ ~d.w.s.c.initial_price[s]
                                /\ d.w.s.t.active_tp[s] = 0
            /\ d.w.s.c.pending_orders = {}
            /\ d.w.s.c.initial_hedge_order = 0

\* C27: no cascade child order is placed unless the cascade is ACTIVE: a step
\* that places a child starts from a cascade that is in progress (waiting
\* for its hedge or active) and ends with the state ACTIVE; a task that was
\* created before a TP teardown or a stop and runs after it places nothing.
C27_ChildOnlyWhenActive ==
    [][ NewChildren # {} =>
            /\ is_cascade_active(cascade)
            /\ cascade'.state = "ACTIVE" ]_vars

\* The programs a task can leave behind when it runs on one of the programs
\* of B.
RunOn(B, t) ==
    UNION { { AfterTask(b, w) : w \in RunFillTask(TaskWorld(b), t) } : b \in B }

\* The FILLED update at the head of the stream is for an order the cascade
\* tracks, and no task is waiting.
TrackedFillDelivered ==
    /\ UserListening /\ exchange.events # <<>> /\ tasks = <<>>
    /\ ScheduleFill(cascade, HeadEvent) # <<>>

\* C28: the FILLED event of a tracked order is applied at most once: when
\* the update of a cascade hedge or child is delivered a second time before
\* the task created for the first delivery has run, the two tasks together
\* leave what one task leaves: the quantity added once, the counter advanced
\* once, no second child.
C28_FillAppliedOnce ==
    TrackedFillDelivered =>
        LET t == ScheduleFill(cascade, HeadEvent)[1]
            delivered == {[BotState EXCEPT !.exchange.events = Tail(@)]}
        IN RunOn(RunOn(delivered, t), t) = RunOn(delivered, t)

\* The strategy's service state s records nothing for the side.
SideIdle(s, side) ==
    CASE strategy = "ALL_OR_NOTHING" -> ~s.active_position[side]
      [] strategy = "ONE_OR_MORE" -> ~s.active_position[side]
      [] strategy = "ACCUMULATOR" -> s.accumulation_count[side] = 0
      [] OTHER -> ~is_cascade_active(s.c)

\* The signal handling o of a side returned failure after its MARKET entry
\* was accepted, and left the position open, the side recorded as inactive
\* and none of the orders it placed live.
Orphaned(o, side) ==
    /\ o.entered /\ o.ret # "True"
    /\ o.w.x.position[side] > 0
    /\ SideIdle(o.w.s, side)
    /\ o.w.x.open_orders \subseteq exchange.open_orders

\* C29: no orphaned untracked position: however the signal handling of a
\* strategy fails after its MARKET entry was accepted, it does not leave the
\* position open with the side recorded as inactive and no protective order
\* of the cycle live.
C29_NoOrphanedPosition ==
    \A side \in Sides : \A o \in SignalOutcomes(side) : ~Orphaned(o, side)

\* The side whose SL or TP reference is the order.
AonPairOf(s, id) ==
    {side \in Sides : s.active_sl[side] = id \/ s.active_tp[side] = id}

\* The other order of the side's SL/TP pair.
AonSibling(s, side, id) ==
    IF s.active_sl[side] = id THEN s.active_tp[side] ELSE s.active_sl[side]

\* What the service keeps about one side.
AonSideState(s, side) ==
    <<s.active_position[side], s.active_sl[side], s.active_tp[side],
      s.trailing_reference[side]>>

\* C30: ALL_OR_NOTHING on order update.  Once the FILLED update of a side's
\* SL or TP has been handled, the sibling order of the pair is no longer
\* live, the side's active flag, SL reference, TP reference and trailing
\* reference are cleared, a new signal for the side passes the gate, and
\* what the service keeps about the other side is as before.
C30_OrderUpdateReset ==
    (strategy = "ALL_OR_NOTHING" /\ exchange.events # <<>>) =>
        \A side \in AonPairOf(aon, HeadEvent.id) :
            \A d \in AonHandleOrderExecution(World(AfterDelivery, aon),
                                             HeadEvent.id) :
                /\ ~IsLive(d.w.x, AonSibling(aon, side, HeadEvent.id))
                /\ AonSideState(d.w.s, side) = <<FALSE, 0, 0, FALSE>>
                /\ AonGate(d.w.s, side)
                /\ AonSideState(d.w.s, Opposite(side)) =
                       AonSideState(aon, Opposite(side))

\* The FILLED update at the head of the stream is the hedge the cascade is
\* waiting for.
HedgeFillDue ==
    /\ strategy = "CASCADE_MASTER"
    /\ exchange.events # <<>>
    /\ cascade.state = "WAITING_HEDGE"
    /\ cascade.initial_hedge_order # 0
    /\ HeadEvent.id = cascade.initial_hedge_order

\* C31: cascade hedge fill.  However the handling of the hedge's FILLED
\* update in state WAITING_HEDGE runs, afterwards the reference price of the
\* hedge side is set, the executed quantity has been added to that side's
\* total, the state is ACTIVE and one new cascade child is pending.
C31_HedgeFill ==
    HedgeFillDue =>
        \A w \in CascadeHandleOrderExecution(
                     World(AfterDelivery, Services(cascade, tp)), HeadEvent) :
            /\ w.s.c.initial_price[HeadEvent.ps]
            /\ w.s.c.current_quantity[HeadEvent.ps] =
                   cascade.current_quantity[HeadEvent.ps] + HeadEvent.qty
            /\ w.s.c.state = "ACTIVE"
            /\ Cardinality(w.s.c.pending_orders \ cascade.pending_orders) = 1

\* The closed candles that do not confirm the pending signal: RSI and
\* Heikin-Ashi data present, the colour not the one the pending type waits for.
NotConfirming(sg, rsi, ha) ==
    /\ rsi # "None"
    /\ ha # "None"
    /\ CheckHaConfirmation(sg, ha) = "None"

\* C32: signal engine fallback.  From the pending state (RSI condition met,
\* LONG or SHORT pending) every close whose Heikin-Ashi colour does not
\* confirm leaves the engine in WAITING with nothing pending, so the RSI
\* condition has to be met again before a signal can be confirmed.
C32_FallbackToWaiting ==
    (MarketListening /\ signal.current_state = "RSI_CONDITION_MET") =>
        \A rsi \in RsiReadings, ha \in HaReadings :
            NotConfirming(signal, rsi, ha) =>
                \A b \in FeedCandle(BotState, rsi, ha) :
                    /\ b.signal.current_state = "WAITING"
                    /\ b.signal.pending_signal_type = "None"

\* A closed candle delivered to the ALL_OR_NOTHING strategy
\* (update_candle_data) and then to the signal engine.
CandleToStrategyAndEngine(rsi, ha, exit_side, trail) ==
    UNION { FeedCandle([BotState EXCEPT !.exchange = d.w.x, !.aon = d.w.s],
                       rsi, ha)
            : d \in AonUpdateCandleData(World(exchange, aon), dynamic_rsi,
                                        exit_side, trail) }

\* C33: the closed candle reaches the active strategy as well as the signal
\* engine.  While ALL_OR_NOTHING runs with an active side, what the bot's
\* handling of a candle close can leave behind is what delivering the candle
\* to the strategy (dynamic RSI exit, trailing stop) and to the signal engine
\* leaves behind, whichever side's exit condition and price trigger hold.
C33_CandleReachesStrategy ==
    (/\ MarketListening
     /\ strategy = "ALL_OR_NOTHING"
     /\ manager.current_strategy # 0
     /\ \E s \in Sides : aon.active_position[s]) =>
        \A rsi \in RsiReadings, ha \in HaReadings :
            \A exit_side \in Sides \cup {"NONE"}, trail \in SUBSET Sides :
                FeedCandle(BotState, rsi, ha) =
                    CandleToStrategyAndEngine(rsi, ha, exit_side, trail)

\* The FILLED update at the head of the stream is for the TP the
\* accumulator holds for the side.
AccTpFillDue(side) ==
    /\ UserListening
    /\ strategy = "ACCUMULATOR"
    /\ exchange.events # <<>>
    /\ acc.active_tp[side] # 0
    /\ HeadEvent.id = acc.active_tp[side]

\* What the accumulator keeps about one side.
AccSideState(s, side) ==
    <<s.accumulation_count[side], s.active_tp[side], s.current_quantity[side]>>

\* C34: ACCUMULATOR on order update.  Once the bot has handled the FILLED
\* update of a side's active TP, the side is reset (count 0, no TP
\* reference, no quantity), so the next signal of the side starts a fresh
\* accumulation, and the other side is as before.
C34_AccumulatorTpReset ==
    \A side \in Sides :
        AccTpFillDue(side) =>
            \A b \in BotHandleOrderExecution(
                         [BotState EXCEPT !.exchange.events = Tail(@)], HeadEvent) :
                /\ AccSideState(b.acc, side) = <<0, 0, 0>>
                /\ AccSideState(b.acc, Opposite(side)) =
                       AccSideState(acc, Opposite(side))

\* What a call of the wrapper has done so far is within the retry policy:
\* at most max_attempts attempts and none after a success, the wait after
\* the n-th failed attempt is 2 x n seconds and there is one wait between
\* two attempts and none after the last, and the call returns True exactly
\* at the first successful attempt, False exactly after max_attempts
\* attempts that all failed or raised.
WithinRetryPolicy ==
    LET n == Len(retry.outcomes)
        Failed(i) == retry.outcomes[i] \in {"False", "raise"}
    IN /\ n <= max_attempts
       /\ \A i \in 1..(n - 1) : Failed(i)
       /\ \A i \in 1..Len(retry.delays) : retry.delays[i] = 2 * i
       /\ retry.pc = "try" => Len(retry.delays) = n /\ retry.attempt = n + 1
       /\ retry.pc = "sleep" => Len(retry.delays) = n - 1 /\ Failed(n)
       /\ retry.pc = "done" =>
             /\ n >= 1
             /\ Len(retry.delays) = n - 1
             /\ retry.ret = "True" <=> retry.outcomes[n] = "True"
             /\ retry.ret = "False" <=> (n = max_attempts /\ Failed(n))
             /\ retry.ret \in {"True", "False"}
       /\ retry.pc # "done" => retry.ret = "None"

\* C35: the protective-order retry is bounded.  Every call of the wrapper
\* stays within the retry policy (at most 5 attempts, 2 x n seconds before
\* attempt n + 1, no wait after the last attempt, an exception is a failed
\* attempt, True at the first success and False after the 5th failure), and
\* every call returns.
C35_BoundedRetry ==
    /\ []WithinRetryPolicy
    /\ (retry.pc = "try") ~> (retry.pc = "done")

\* A call that fails five times, an exception among the failures, and
\* returns False after the waits of 2, 4, 6 and 8 seconds.
C35_Witness ==
    /\ retry.pc = "done"
    /\ retry.ret = "False"
    /\ Len(retry.outcomes) = max_attempts
    /\ \E i \in 1..max_attempts : retry.outcomes[i] = "raise"
    /\ retry.delays = <<2, 4, 6, 8>>

\* The totals after a child built from the totals L and S by
\* _create_next_cascade_order has filled completely
\* (_process_cascade_execution_async adds the executed quantity to the
\* child's side).
TotalsAfterChild(L, S) ==
    [[LONG |-> L, SHORT |-> S] EXCEPT ![NextChildSide(L, S)] =
                                          @ + NextChildQuantity(L, S)]

\* C36: swap of dominance.  For all totals L, S >= 0 for which the 2X - Y
\* rule gives a child (L = S included), the child goes to a side that is not
\* the larger one and after its complete fill that side is strictly the
\* larger one; and in every reachable state, handling the fill of the
\* pending child leaves the filled side, not larger before, strictly larger.
C36_SwapOfDominance ==
    /\ \A L, S \in 0..MaxTotal :
          LET ps == NextChildSide(L, S)
              before == [LONG |-> L, SHORT |-> S]
              after == TotalsAfterChild(L, S)
          IN NextChildQuantity(L, S) > 0 =>
                /\ before[ps] <= before[Opposite(ps)]
                /\ after[ps] > after[Opposite(ps)]
    /\ ChildFillDelivered =>
          \A w \in ChildOutcomes :
              /\ cascade.current_quantity[HeadEvent.ps] <=
                     cascade.current_quantity[Opposite(HeadEvent.ps)]
              /\ w.s.c.current_quantity[HeadEvent.ps] >
                     w.s.c.current_quantity[Opposite(HeadEvent.ps)]

\* The first child of a cascade, a LONG of three units against a SHORT side
\* of two, has filled and its update is being handled.
C36_Witness ==
    /\ ChildFillDelivered
    /\ HeadEvent.ps = "LONG"
    /\ cascade.current_quantity["LONG"] < cascade.current_quantity["SHORT"]
    /\ HeadEvent.qty = NextChildQuantity(cascade.current_quantity["LONG"],
                                         cascade.current_quantity["SHORT"])

\* A step that places a cascade child is the run of the task of a fill: the
\* task's order, the hedge or the previous child, is no longer open, no
\* other child was pending, and the new child is the only one pending after.
ChildFollowsFill ==
    NewChildren # {} =>
        /\ tasks # <<>>
        /\ tasks' = Tail(tasks)
        /\ ~IsLive(exchange, Head(tasks).e.id)
        /\ cascade.pending_orders \subseteq {Head(tasks).e.id}
        /\ cascade'.pending_orders = {o.id : o \in NewChildren}

\* C37: at most one cascade child is live at any time.  In every reachable
\* state pending_orders holds at most one order, and a new child is created
\* only by the handling of the fill of the hedge or of the previous child.
C37_OneChildPending ==
    /\ [](Cardinality(cascade.pending_orders) <= 1)
    /\ [][ChildFollowsFill]_vars

\* The second child of a cascade is pending, created when the fill of the
\* first was handled.
C37_Witness ==
    /\ cascade.state = "ACTIVE"
    /\ cascade.cascade_orders_count >= 3
    /\ Cardinality(cascade.pending_orders) = 1
    /\ \E o \in exchange.open_orders :
          o.type = "CHILD" /\ o.id \in cascade.pending_orders

\* A cascade cycle that was started and not yet torn down: the cascade is
\* waiting for its hedge or active, or it is STOPPED with the quantities of
\* the cycle still recorded (handle_tp_execution zeroes them).
CascadeCycleOpen ==
    \/ is_cascade_active(cascade)
    \/ /\ cascade.state = "STOPPED"
       /\ \E s \in Sides : cascade.current_quantity[s] > 0

\* C38: CASCADE_MASTER admits no new entry while a cascade cycle is open.
\* From the start of the cascade to the TP teardown, the STOPPED state after
\* MAX_ORDERS or after a refused child included, a closed candle emits no
\* signal, places no entry and starts no second cascade.
C38_NoEntryWhileCycleOpen ==
    (MarketListening /\ strategy = "CASCADE_MASTER" /\ CascadeCycleOpen) =>
        \A rsi \in RsiReadings, ha \in HaReadings :
            \A h \in ProcessSignalDetection(manager, BotState, rsi, ha) :
                /\ h.emitted = "None"
                /\ ~h.entered
                /\ h.b.cascade.state = "WAITING_HEDGE"
                      => cascade.state = "WAITING_HEDGE"

\* One step during which the side stays active: its recorded stop-loss
\* level does not move against the position, a stop order placed is the one
\* recorded, and the reference changes only to the close just handled,
\* together with a new SL order that the exchange accepted at the recorded
\* level.
TrailingFavorable ==
    (trailing.active_position /\ trailing'.active_position) =>
        /\ IF trailing.position_side = "LONG"
             THEN trailing'.active_sl.stopPrice >= trailing.active_sl.stopPrice
             ELSE trailing'.active_sl.stopPrice <= trailing.active_sl.stopPrice
        /\ \A n \in trailing'.open_stops \ trailing.open_stops :
              n = trailing'.active_sl
        /\ trailing'.trailing_reference # trailing.trailing_reference =>
              /\ trailing'.trailing_reference = trailing'.current_price
              /\ trailing'.active_sl.orderId # trailing.active_sl.orderId
              /\ trailing'.active_sl \in trailing'.open_stops \ trailing.open_stops

\* C39: the trailing stop is favorable-direction-only.  Over any sequence of
\* candle closes while a side is active its stop-loss level only moves upward
\* for LONG and downward for SHORT, and trailing_reference advances to the
\* close only when the SL has actually been replaced.
C39_FavorableOnly == [][TrailingFavorable]_vars

\* A SHORT side whose stop-loss was moved down by a trailing adjustment: the
\* new SL is live below the level of the first and the reference is the
\* close that triggered it.
C39_Witness ==
    /\ trailing.active_position
    /\ trailing.position_side = "SHORT"
    /\ trailing.active_sl.orderId > 1
    /\ trailing.active_sl \in trailing.open_stops
    /\ trailing.trailing_reference = trailing.current_price
    /\ \E o \in trailing.open_stops : o.stopPrice > trailing.active_sl.stopPrice

\* The SL and the fixed TP a side tracks.
AonCycleOrders(s, side) == {s.active_sl[side], s.active_tp[side]} \ {0}

\* C40: dynamic RSI exit.  With the exit enabled, whenever every RSI period
\* is in the opposite extreme for an active side at a candle close, the exit
\* leaves the side reset, none of the side's SL and fixed TP live on the
\* exchange, and the side open for a new signal.
C40_DynamicRsiExit ==
    (strategy = "ALL_OR_NOTHING" /\ dynamic_rsi) =>
        \A side \in Sides :
            aon.active_position[side] =>
                \A d \in AonDynamicExit(World(exchange, aon), side, dynamic_rsi, TRUE) :
                    /\ AonSideState(d.w.s, side) = AonSideState(AonInit, side)
                    /\ \A id \in AonCycleOrders(aon, side) : ~IsLive(d.w.x, id)
                    /\ AonGate(d.w.s, side)

====
